---- MODULE Spec2Model ----
(***************************************************************************)
(* A model of the MSL back-end of SPIRV-Cross (src/spirv_msl.cpp).         *)
(*                                                                         *)
(* The translation instance is modelled by one set of variables.  These    *)
(* specifications exercise it:                                             *)
(*   Spec         the emission loop of compile() on shaders with storage   *)
(*                images (OpImageRead / OpImageWrite);                     *)
(*   SpecBind     the same loop on shaders with buffer / texture / sampler *)
(*                resources and user resource-binding records;             *)
(*   SpecIface    the three add_interface_block calls of compile();        *)
(*   SpecGlobals  localize_global_variables followed by                    *)
(*                extract_global_variables_from_functions, on modules      *)
(*                whose function bodies vary;                              *)
(*   SpecLocalize the same two passes on modules whose variables vary;     *)
(*   SpecAlign    align_struct on a CPacked struct;                        *)
(*   SpecReturn   add_interface_block on entry functions whose blocks      *)
(*                vary;                                                    *)
(*   SpecBarrier  the emission loop on sequences of barriers;              *)
(*   SpecBarrierArgs  one barrier, over all scopes, semantics and targets; *)
(*   SpecEmit     the emission loop on modules with structs,               *)
(*                specialization constants and helper functions;           *)
(*   SpecNames    replace_illegal_names;                                   *)
(*   SpecCompile  the whole of compile(), called twice;                    *)
(*   SpecPass     the emission loop on shaders that read and write images  *)
(*                and load row-major matrices;                             *)
(*   SpecRelocalize  the two global-variable passes, run twice;            *)
(*   SpecSort     MemberSorter on structs with distinct locations;         *)
(*   SpecCycle    extract_global_variables_from_functions on modules whose *)
(*                functions call each other;                               *)
(*   SpecHelpers  compile() on modules whose instructions call the helper  *)
(*                functions of the back-end;                               *)
(*   SpecArgs     compile() on vertex shaders with secondary input blocks  *)
(*                and buffers.                                             *)
(***************************************************************************)
EXTENDS Integers, Sequences, FiniteSets, TLC

VARIABLES
    \* ---- compile(), lines 55-130
    pc,                          \* position inside compile()
    pass_count,                  \* uint32_t pass_count
    force_recompile,             \* Compiler::force_recompile
    buffer,                      \* the output buffer of the running pass
    result,                      \* what compile() returned: <<>> while running,
                                 \*   <<text>> once it returned
    diagnostic,                  \* the message of the exception compile() threw
    execution_model,             \* get_entry_point().model
    resources,                   \* the Uniform* variables of the IR, in ID order
    decoration_flags,            \* meta[var].decoration.decoration_flags, per resource
    instrs,                      \* the instructions of the entry function
    ip,                          \* number of instructions the pass has emitted
    base_recompiles,             \* recompile requests the generic back-end still has
    resource_bindings,           \* the MSLResourceBinding records, in list order
    next_metal_resource_index,   \* the binding-counter triple
    pass_start_flags,            \* history: decoration_flags when the pass began
    previous_instruction_opcode, \* opcode of the last instruction emit_instruction handled
    options,                     \* CompilerMSL::Options: platform and msl_version
    constants,                   \* constant ID -> scalar value
    pragma_lines,                \* set of pragma lines of the header
    header_lines,                \* set of additional header lines
    spec_consts,                 \* get_specialization_constants(): records (id, scalar)
    workgroup_size_id,           \* ID of a specialization-constant WorkGroupSize (0: none)
    struct_types,                \* the SPIRType entries of ids, in ID order
    spv_function_implementations,\* the helper-function registry
    \* ---- interface-block synthesis, lines 394-722
    iface_vars,                  \* the Input / Output / UniformConstant variables, in ID order
    vtx_attrs_by_location,       \* location -> MSLVertexAttr record (or none)
    id_bound,                    \* ids.size(): the next ID increase_bound_by hands out
    stage_in_var_id,
    stage_out_var_id,
    stage_uniforms_var_id,
    ib_types,                    \* storage -> the synthesized struct (member_types, meta.members)
    ib_added,                    \* history: storage -> the members in the order they were added
    non_stage_in_input_var_ids,  \* msl_buffer -> variable ID of the secondary block (0: none)
    nsi_types,                   \* msl_buffer -> the struct of the secondary block
    needs_vertex_idx_arg,
    needs_instance_idx_arg,
    func_blocks,                 \* function ID -> its basic blocks (terminator, return_value)
    \* ---- global variables, lines 178-327
    var_storage,                 \* variable ID -> SPIRVariable::storage
    orig_storage,                \* history: var_storage as the module declared it
    global_variables,            \* Compiler::global_variables, the module-scope list
    entry_local_variables,       \* entry_func.local_variables
    func_ops,                    \* function ID -> the instructions of its blocks
    func_arguments,              \* function ID -> the parameters added to it
    function_global_vars,        \* function ID -> the global variables it needs
    \* ---- struct alignment, lines 728-802
    align_type,                  \* the CPacked struct: member_types and meta.members
    struct_member_padding,       \* member index -> padding bytes before it (0: none)
    \* ---- names, locale and repeated calls
    meta,                        \* ID -> its kind, decoration.alias and member aliases
    entry_points,                \* the entry points: function ID and name
    orig_names,                  \* history: meta and entry_points as the module declared them
    locale,                      \* the global locale of the process
    old_locale,                  \* classic_locale: the locale it will restore
    compile_calls,               \* compile() calls begun on this instance
    locale_before,               \* history: the locale when the running call began
    first_run,                   \* history: what the first run of the global localizer left
    first_call                   \* history: what the first call returned and emitted from

commonVars == <<pc, result, diagnostic, execution_model, id_bound>>

driverVars == <<pass_count, force_recompile, buffer, resources, decoration_flags,
                instrs, ip, base_recompiles, resource_bindings,
                next_metal_resource_index, pass_start_flags,
                previous_instruction_opcode, options, constants,
                pragma_lines, header_lines, spec_consts, workgroup_size_id,
                struct_types, spv_function_implementations>>

barrierVars == <<previous_instruction_opcode, options, constants>>

emitVars == <<pragma_lines, header_lines, spec_consts, workgroup_size_id,
              struct_types, spv_function_implementations>>

\* a module without pragmas, header lines, specialization constants,
\* struct types and helper functions
NoDeclarations ==
    /\ pragma_lines = {}
    /\ header_lines = {}
    /\ spec_consts = <<>>
    /\ workgroup_size_id = 0
    /\ struct_types = <<>>
    /\ spv_function_implementations = {}

ifaceVars == <<iface_vars, vtx_attrs_by_location, stage_in_var_id,
               stage_out_var_id, stage_uniforms_var_id, ib_types, ib_added,
               non_stage_in_input_var_ids, nsi_types, needs_vertex_idx_arg,
               needs_instance_idx_arg, func_blocks>>

globalsVars == <<var_storage, orig_storage, global_variables, entry_local_variables,
                 func_ops, func_arguments, function_global_vars>>

alignVars == <<align_type, struct_member_padding>>

\* the variables that only the beginning and the end of compile() change
frameVars == <<meta, entry_points, orig_names, old_locale, compile_calls,
               locale_before, first_run, first_call>>

vars == <<commonVars, driverVars, ifaceVars, globalsVars, alignVars, frameVars, locale>>

\* an instance in its first call, under the classic locale, with no names
PipelineIdle ==
    /\ meta = <<>>
    /\ entry_points = <<>>
    /\ orig_names = <<>>
    /\ locale = "C"
    /\ old_locale = "C"
    /\ compile_calls = 1
    /\ locale_before = "C"
    /\ first_run = <<>>
    /\ first_call = <<>>

\* the variables a specification does not exercise keep these values
DriverIdle ==
    /\ pass_count = 0
    /\ force_recompile = FALSE
    /\ buffer = <<>>
    /\ resources = <<>>
    /\ decoration_flags = <<>>
    /\ instrs = <<>>
    /\ ip = 0
    /\ base_recompiles = 0
    /\ resource_bindings = <<>>
    /\ next_metal_resource_index = [msl_buffer |-> 0, msl_texture |-> 0, msl_sampler |-> 0]
    /\ pass_start_flags = <<>>
    /\ previous_instruction_opcode = "OpNop"
    /\ options = [platform |-> "macOS", msl_version |-> 10200]
    /\ constants = <<>>
    /\ NoDeclarations

IfaceIdle ==
    /\ iface_vars = <<>>
    /\ vtx_attrs_by_location = <<>>
    /\ stage_in_var_id = 0
    /\ stage_out_var_id = 0
    /\ stage_uniforms_var_id = 0
    /\ ib_types = <<>>
    /\ ib_added = <<>>
    /\ non_stage_in_input_var_ids = <<>>
    /\ nsi_types = <<>>
    /\ needs_vertex_idx_arg = FALSE
    /\ needs_instance_idx_arg = FALSE
    /\ func_blocks = <<>>

GlobalsIdle ==
    /\ var_storage = <<>>
    /\ orig_storage = <<>>
    /\ global_variables = <<>>
    /\ entry_local_variables = <<>>
    /\ func_ops = <<>>
    /\ func_arguments = <<>>
    /\ function_global_vars = <<>>

AlignIdle ==
    /\ align_type = <<>>
    /\ struct_member_padding = <<>>

\* the variables the driver loop leaves alone
notDriverVars == <<id_bound, ifaceVars, globalsVars, alignVars, frameVars>>

----------------------------------------------------------------------------
(* Bounds of the model.                                                    *)

MaxOps == 2              \* instructions in the entry function (Spec)
MaxBaseRecompiles == 3   \* recompile requests of the generic back-end
MaxRes == 3              \* resources of the shader (SpecBind)
MaxBindings == 1         \* user resource-binding records (SpecBind)

(* Program constants.                                                      *)
MaxPasses == 3           \* compile(): if (pass_count >= 3) throw

----------------------------------------------------------------------------
(* Small helpers.                                                          *)

SeqsUpTo(S, n) == UNION {[1..k -> S] : k \in 0..n}

Range(s) == {s[i] : i \in DOMAIN s}

Min(S) == CHOOSE x \in S : \A y \in S : x <= y

\* the function ID of the entry point
entry_point == 1

----------------------------------------------------------------------------
(* The output buffer is a sequence of tokens, one per emitted line or      *)
(* entry-point argument.                                                   *)

Tok(kind, var, index) == [kind |-> kind, var |-> var, index |-> index]

\* the lines of a std::set<std::string> in its iteration order
PragmaOrder == << "#pragma clang diagnostic ignored \"-Wmissing-prototypes\"",
                  "#pragma clang diagnostic ignored \"-Wunused-variable\"" >>

HeaderOrder == << "#include <metal_atomic>" >>

Lines(order, set) ==
    LET kept == SelectSeq(order, LAMBDA l : l \in set)
    IN  [k \in DOMAIN kept |-> Tok(kept[k], 0, 0)]

\* emit_header: the pragma lines, the two includes, the header lines and
\* the using directive (the tokens are the lines that are not empty)
emit_header ==
    Lines(PragmaOrder, pragma_lines)
      \o << Tok("#include <metal_stdlib>", 0, 0),
            Tok("#include <simd/simd.h>", 0, 0) >>
      \o Lines(HeaderOrder, header_lines)
      \o << Tok("using namespace metal;", 0, 0) >>

\* emit_specialization_constants from constant i on: a scalar constant is a
\* function constant and a constant with its default, any other a plain
\* constant; WorkGroupSize is declared after the others
RECURSIVE SpecConstantDecls(_)
SpecConstantDecls(i) ==
    IF i > Len(spec_consts)
    THEN IF workgroup_size_id # 0
         THEN << Tok("constant", workgroup_size_id, 0) >> ELSE <<>>
    ELSE (IF spec_consts[i].id = workgroup_size_id THEN <<>>
          ELSE IF spec_consts[i].scalar
          THEN << Tok("function_constant", spec_consts[i].id, 0),
                  Tok("constant", spec_consts[i].id, 0) >>
          ELSE << Tok("constant", spec_consts[i].id, 0) >>)
         \o SpecConstantDecls(i + 1)

emit_specialization_constants == SpecConstantDecls(1)

\* emit_resources lines 1149-1158
is_declarable_struct(type) ==
    LET is_struct == type.basetype = "Struct" /\ ~type.is_array
        is_block == type.block
        is_basic_struct == is_struct /\ ~type.pointer /\ ~is_block
        is_interface == type.storage \in {"Input", "Output", "UniformConstant"}
        is_non_interface_block == is_struct /\ type.pointer /\ is_block /\ ~is_interface
    IN  is_basic_struct \/ is_non_interface_block

\* emit_resources lines 1142-1171: the declarable structs from type i on,
\* each declared once
RECURSIVE StructDecls(_, _)
StructDecls(i, declared_structs) ==
    IF i > Len(struct_types) THEN <<>>
    ELSE IF is_declarable_struct(struct_types[i])
            /\ struct_types[i].self \notin declared_structs
    THEN << Tok("struct", struct_types[i].self, 0) >>
           \o StructDecls(i + 1, declared_structs \cup {struct_types[i].self})
    ELSE StructDecls(i + 1, declared_structs)

\* emit_interface_block
emit_interface_block(ib_var_id, ib_type) ==
    IF ib_var_id # 0 /\ Len(ib_type.members) > 0
    THEN << Tok("struct", ib_var_id, 0) >> ELSE <<>>

\* emit_resources lines 1177-1178 from buffer b on
RECURSIVE NonStageInDecls(_)
NonStageInDecls(b) ==
    IF b \notin DOMAIN non_stage_in_input_var_ids THEN <<>>
    ELSE emit_interface_block(non_stage_in_input_var_ids[b], nsi_types[b])
           \o NonStageInDecls(b + 1)

InterfaceType(storage, ib_var_id) ==
    IF ib_var_id # 0 THEN ib_types[storage] ELSE [member_types |-> <<>>, members |-> <<>>]

\* emit_resources: no struct of these shaders carries CPacked
emit_resources ==
    StructDecls(1, {})
      \o emit_interface_block(stage_in_var_id, InterfaceType("Input", stage_in_var_id))
      \o NonStageInDecls(0)
      \o emit_interface_block(stage_out_var_id, InterfaceType("Output", stage_out_var_id))
      \o emit_interface_block(stage_uniforms_var_id,
                              InterfaceType("UniformConstant", stage_uniforms_var_id))

\* the SPVFuncImpl values in the order of the enumeration
SPVFuncImpls ==
    << "SPVFuncImplMod", "SPVFuncImplRadians", "SPVFuncImplDegrees",
       "SPVFuncImplFindILsb", "SPVFuncImplFindSMsb", "SPVFuncImplFindUMsb",
       "SPVFuncImplArrayCopy", "SPVFuncImplInverse2x2", "SPVFuncImplInverse3x3",
       "SPVFuncImplInverse4x4", "SPVFuncImplRowMajor2x3", "SPVFuncImplRowMajor2x4",
       "SPVFuncImplRowMajor3x2", "SPVFuncImplRowMajor3x4", "SPVFuncImplRowMajor4x2",
       "SPVFuncImplRowMajor4x3" >>

\* emit_custom_functions: the definition of every registered helper
emit_custom_functions ==
    LET kept == SelectSeq(SPVFuncImpls, LAMBDA f : f \in spv_function_implementations)
    IN  [k \in DOMAIN kept |-> Tok("helper", kept[k], 0)]

\* emit_custom_functions, the cases of the switch: the MSL functions each
\* case defines, in the order it prints them
FunctionNames(spv_func) ==
    CASE spv_func = "SPVFuncImplMod"         -> << "mod" >>
      [] spv_func = "SPVFuncImplRadians"     -> << "radians" >>
      [] spv_func = "SPVFuncImplDegrees"     -> << "degrees" >>
      [] spv_func = "SPVFuncImplFindILsb"    -> << "findLSB" >>
      [] spv_func = "SPVFuncImplFindUMsb"    -> << "findUMSB" >>
      [] spv_func = "SPVFuncImplFindSMsb"    -> << "findSMSB" >>
      [] spv_func = "SPVFuncImplArrayCopy"   -> << "spvArrayCopy" >>
      [] spv_func = "SPVFuncImplInverse4x4"  -> << "spvDet2x2", "spvDet3x3", "spvInverse4x4" >>
      [] spv_func = "SPVFuncImplInverse3x3"  -> << "spvDet2x2", "spvInverse3x3" >>
      [] spv_func = "SPVFuncImplInverse2x2"  -> << "spvInverse2x2" >>
      [] spv_func = "SPVFuncImplRowMajor2x3" -> << "spvConvertFromRowMajor2x3" >>
      [] spv_func = "SPVFuncImplRowMajor2x4" -> << "spvConvertFromRowMajor2x4" >>
      [] spv_func = "SPVFuncImplRowMajor3x2" -> << "spvConvertFromRowMajor3x2" >>
      [] spv_func = "SPVFuncImplRowMajor3x4" -> << "spvConvertFromRowMajor3x4" >>
      [] spv_func = "SPVFuncImplRowMajor4x2" -> << "spvConvertFromRowMajor4x2" >>
      [] spv_func = "SPVFuncImplRowMajor4x3" -> << "spvConvertFromRowMajor4x3" >>
      [] OTHER                               -> << >>

\* a mutant: the registry holds the newest helper only
InsertImpl_replacing(registry, spv_func) == {spv_func}

\* spv_function_implementations.insert(spv_func)
InsertImpl(registry, spv_func) == registry \cup {spv_func}

\* add_convert_row_major_matrix_function lines 2338-2354: the helper of a
\* matrix, "" for a square one
RowMajorImpl(cols, rows) ==
    IF cols = rows THEN ""
    ELSE CASE cols = 2 /\ rows = 3 -> "SPVFuncImplRowMajor2x3"
           [] cols = 2 /\ rows = 4 -> "SPVFuncImplRowMajor2x4"
           [] cols = 3 /\ rows = 2 -> "SPVFuncImplRowMajor3x2"
           [] cols = 3 /\ rows = 4 -> "SPVFuncImplRowMajor3x4"
           [] cols = 4 /\ rows = 2 -> "SPVFuncImplRowMajor4x2"
           [] cols = 4 /\ rows = 3 -> "SPVFuncImplRowMajor4x3"

----------------------------------------------------------------------------
(* Binding-index assignment.                                               *)

\* the reserved descriptor set and binding of push constants (the set is
\* ~0u in the program; -1 is the same bit pattern)
kPushConstDescSet == -1
kPushConstBinding == 0

ZeroIndex == [msl_buffer |-> 0, msl_texture |-> 0, msl_sampler |-> 0]

\* the position of the first record matching (stage, desc_set, binding), 0 if none
MatchingBinding(res, rbs) ==
    LET var_desc_set == IF res.storage = "PushConstant" THEN kPushConstDescSet ELSE res.set
        var_binding  == IF res.storage = "PushConstant" THEN kPushConstBinding ELSE res.binding
        hits == {i \in DOMAIN rbs :
                    /\ rbs[i].stage = execution_model
                    /\ rbs[i].desc_set = var_desc_set
                    /\ rbs[i].binding = var_binding}
    IN  IF hits = {} THEN 0 ELSE Min(hits)

\* get_metal_resource_index, the fall-back: the counter of the class is
\* returned and incremented
NextIndex(res, basetype, st) ==
    CASE basetype = "Struct" ->
            [index |-> st.ctr.msl_buffer,
             ctr |-> [st.ctr EXCEPT !.msl_buffer = @ + 1], rbs |-> st.rbs]
      [] basetype = "Image" ->
            [index |-> st.ctr.msl_texture,
             ctr |-> [st.ctr EXCEPT !.msl_texture = @ + 1], rbs |-> st.rbs]
      [] basetype = "Sampler" ->
            [index |-> st.ctr.msl_sampler,
             ctr |-> [st.ctr EXCEPT !.msl_sampler = @ + 1], rbs |-> st.rbs]
      [] OTHER -> [index |-> 0, ctr |-> st.ctr, rbs |-> st.rbs]

\* a mutant: the user's records are never consulted
get_metal_resource_index_ignores_records(res, basetype, st) ==
    NextIndex(res, basetype, st)

\* get_metal_resource_index(var, basetype): st = [ctr, rbs] is the counter
\* triple and the records; returns the index with the updated st
get_metal_resource_index(res, basetype, st) ==
    LET m == MatchingBinding(res, st.rbs) IN
    IF m # 0
    THEN [index |-> CASE basetype = "Struct"  -> st.rbs[m].msl_buffer
                      [] basetype = "Image"   -> st.rbs[m].msl_texture
                      [] basetype = "Sampler" -> st.rbs[m].msl_sampler
                      [] OTHER -> 0,
          ctr |-> st.ctr,
          rbs |-> [st.rbs EXCEPT ![m].used_by_shader = TRUE]]
    ELSE NextIndex(res, basetype, st)

\* entry_point_args, the loop over the Uniform* variables: the arguments of
\* resources i.. appended to acc.args, threading the counters and records
RECURSIVE entry_point_args(_, _)
entry_point_args(i, acc) ==
    IF i > Len(resources) THEN acc
    ELSE
      LET res == resources[i]
          st  == [ctr |-> acc.ctr, rbs |-> acc.rbs]
      IN
      CASE res.cls = "Struct" ->
             LET r == get_metal_resource_index(res, "Struct", st) IN
             entry_point_args(i + 1,
                 [args |-> Append(acc.args, Tok("buffer", i, r.index)),
                  ctr |-> r.ctr, rbs |-> r.rbs])
        [] res.cls = "Sampler" ->
             LET r == get_metal_resource_index(res, "Sampler", st) IN
             entry_point_args(i + 1,
                 [args |-> Append(acc.args, Tok("sampler", i, r.index)),
                  ctr |-> r.ctr, rbs |-> r.rbs])
        [] res.cls = "Image" ->
             LET r == get_metal_resource_index(res, "Image", st) IN
             entry_point_args(i + 1,
                 [args |-> Append(acc.args, Tok("texture", i, r.index)),
                  ctr |-> r.ctr, rbs |-> r.rbs])
        [] res.cls = "SampledImage" ->
             LET r1 == get_metal_resource_index(res, "Image", st)
                 a1 == Append(acc.args, Tok("texture", i, r1.index))
             IN  IF res.dim_buffer
                 THEN entry_point_args(i + 1,
                         [args |-> a1, ctr |-> r1.ctr, rbs |-> r1.rbs])
                 ELSE LET r2 == get_metal_resource_index(res, "Sampler",
                                    [ctr |-> r1.ctr, rbs |-> r1.rbs])
                      IN entry_point_args(i + 1,
                            [args |-> Append(a1, Tok("sampler", i, r2.index)),
                             ctr |-> r2.ctr, rbs |-> r2.rbs])
        [] OTHER -> entry_point_args(i + 1, acc)

----------------------------------------------------------------------------
(* Barriers: emit_barrier.                                                 *)

\* spv::Scope
ScopeCrossDevice == 0
ScopeDevice == 1
ScopeWorkgroup == 2
ScopeSubgroup == 3
ScopeInvocation == 4

\* spv::MemorySemanticsMask
MemorySemanticsMaskNone == 0
MemorySemanticsAcquireReleaseMask == 8
MemorySemanticsUniformMemoryMask == 64
MemorySemanticsSubgroupMemoryMask == 128
MemorySemanticsWorkgroupMemoryMask == 256
MemorySemanticsCrossWorkgroupMemoryMask == 512
MemorySemanticsAtomicCounterMemoryMask == 1024
MemorySemanticsImageMemoryMask == 2048

\* x & y on unsigned integers
RECURSIVE BitAnd(_, _)
BitAnd(x, y) ==
    IF x = 0 \/ y = 0 THEN 0
    ELSE (x % 2) * (y % 2) + 2 * BitAnd(x \div 2, y \div 2)

\* get<SPIRConstant>(id).scalar()
scalar(id) == constants[id]

\* options.is_ios()
is_ios == options.platform = "iOS"

\* options.supports_msl_version(major): make_msl_version(major) is
\* major * 10000
supports_msl_version(major) == options.msl_version >= major * 10000

\* a mutant: image memory is matched before the threadgroup kinds
mem_flags_image_first(id_mem_sem) ==
    LET mem_sem == IF id_mem_sem # 0 THEN scalar(id_mem_sem) ELSE MemorySemanticsMaskNone
    IN  IF BitAnd(mem_sem, MemorySemanticsCrossWorkgroupMemoryMask) # 0
        THEN "mem_device"
        ELSE IF BitAnd(mem_sem, MemorySemanticsImageMemoryMask) # 0
        THEN "mem_texture"
        ELSE IF BitAnd(mem_sem, MemorySemanticsSubgroupMemoryMask
                                  + MemorySemanticsWorkgroupMemoryMask
                                  + MemorySemanticsAtomicCounterMemoryMask) # 0
        THEN "mem_threadgroup"
        ELSE "mem_none"

\* emit_barrier lines 1646-1656: the mem_flags of the statement
mem_flags(id_mem_sem) ==
    LET mem_sem == IF id_mem_sem # 0 THEN scalar(id_mem_sem) ELSE MemorySemanticsMaskNone
    IN  IF BitAnd(mem_sem, MemorySemanticsCrossWorkgroupMemoryMask) # 0
        THEN "mem_device"
        ELSE IF BitAnd(mem_sem, MemorySemanticsSubgroupMemoryMask
                                  + MemorySemanticsWorkgroupMemoryMask
                                  + MemorySemanticsAtomicCounterMemoryMask) # 0
        THEN "mem_threadgroup"
        ELSE IF BitAnd(mem_sem, MemorySemanticsImageMemoryMask) # 0
        THEN "mem_texture"
        ELSE "mem_none"

\* a mutant: the narrower scope (larger value) is used
barrier_scope_narrower(exe_scope, mem_scope) ==
    IF exe_scope >= mem_scope THEN exe_scope ELSE mem_scope

\* emit_barrier line 1665: min(exe_scope, mem_scope)
barrier_scope(exe_scope, mem_scope) ==
    IF exe_scope <= mem_scope THEN exe_scope ELSE mem_scope

\* emit_barrier lines 1658-1683: the memory scope of the statement, "" when
\* the statement has no second argument
memory_scope(id_exe_scope, id_mem_scope) ==
    IF is_ios /\ supports_msl_version(2)
    THEN LET exe_scope == IF id_exe_scope # 0 THEN scalar(id_exe_scope)
                          ELSE ScopeInvocation
             mem_scope == IF id_mem_scope # 0 THEN scalar(id_mem_scope)
                          ELSE ScopeInvocation
             scope == barrier_scope(exe_scope, mem_scope)
         IN  IF scope \in {ScopeCrossDevice, ScopeDevice} THEN "memory_scope_device"
             ELSE IF scope \in {ScopeSubgroup, ScopeInvocation}
             THEN "memory_scope_simdgroup"
             ELSE "memory_scope_threadgroup"
    ELSE ""

\* emit_barrier: the statements it emits
emit_barrier(id_exe_scope, id_mem_scope, id_mem_sem) ==
    IF execution_model # "GLCompute" THEN <<>>
    ELSE << Tok("threadgroup_barrier", mem_flags(id_mem_sem),
                memory_scope(id_exe_scope, id_mem_scope)) >>

----------------------------------------------------------------------------
(* The emission loop of compile().                                         *)

\* a mutant: the loop guard lets a fourth pass start
TooManyPasses_off_by_one == pass_count > MaxPasses

\* compile() line 110
TooManyPasses == pass_count >= MaxPasses

\* a mutant: the classic locale stays in force
RestoredLocale_classic == "C"

\* the end of the scope of classic_locale (line 58), on return and on throw
RestoredLocale == old_locale

\* a mutant: the structs are declared before the specialization constants
PassPrologue_structs_first ==
    emit_header \o emit_resources \o emit_specialization_constants
      \o emit_custom_functions

\* compile() lines 120-123
PassPrologue ==
    emit_header \o emit_specialization_constants \o emit_resources
      \o emit_custom_functions

\* a mutant: the passes share one buffer
NewBuffer_appending == buffer

\* compile() line 118: a new ostringstream
NewBuffer == <<>>

\* a mutant: the binding counters run on from the pass before
PassStartIndex_running_on == next_metal_resource_index

\* compile() line 115: next_metal_resource_index = MSLResourceBinding()
PassStartIndex == ZeroIndex

\* lines 110-123: the guard of the loop body, reset(), the counters, the
\* fresh buffer, then the header, the specialization constants, the
\* resources and the custom functions
BeginPass ==
    /\ pc = "loop"
    /\ IF TooManyPasses
       THEN /\ pc' = "thrown"
            /\ diagnostic' = "Over 3 compilation loops detected. Must be a bug!"
            /\ locale' = RestoredLocale
            /\ UNCHANGED <<force_recompile, buffer, next_metal_resource_index,
                           ip, pass_start_flags>>
       ELSE /\ pc' = "prototype"
            /\ UNCHANGED <<diagnostic, locale>>
            /\ force_recompile' = FALSE
            /\ next_metal_resource_index' = PassStartIndex
            /\ buffer' = NewBuffer \o PassPrologue
            /\ ip' = 0
            /\ pass_start_flags' = decoration_flags
    /\ UNCHANGED <<pass_count, result, execution_model, resources, decoration_flags,
                   instrs, base_recompiles, resource_bindings, barrierVars,
                   emitVars, notDriverVars>>

\* emit_function_prototype lines 1973-1996 for a function other than the
\* entry function: its name, then its parameters, each printed under the
\* name of the variable it stands for (meta[next_id] = meta[arg_id])
emit_function_prototype(func) ==
    << Tok("function", func, 0) >>
      \o [k \in DOMAIN func_arguments[func] |->
            Tok("parameter", func_arguments[func][k].basevariable, 0)]

\* emit_glsl_op lines 1852-1916: the function an extended instruction
\* calls; the three helpers of the MSL back-end, and the name the generic
\* back-end prints for the others
emit_glsl_op(ins) ==
    CASE ins.ext = "FindSMsb" -> "findSMSB"
      [] ins.ext = "FindUMsb" -> "findUMSB"
      [] ins.ext = "MatrixInverse" ->
            ( CASE ins.columns = 2 -> "spvInverse2x2"
                [] ins.columns = 3 -> "spvInverse3x3"
                [] ins.columns = 4 -> "spvInverse4x4"
                [] OTHER           -> "inverse" )
      [] ins.ext = "FindILsb" -> "findLSB"
      [] ins.ext = "Radians"  -> "radians"
      [] ins.ext = "Degrees"  -> "degrees"
      [] OTHER                -> "generic"

\* maybe_emit_array_assignment lines 1750-1770: the right-hand side is not
\* a constant and expression_type(id_rhs) is an array
maybe_emit_array_assignment(ins) ==
    ins.rhs.type # "TypeConstant" /\ ins.rhs.array

\* what emit_instruction prints for an instruction that changes no state
\* of the compiler: a call of a function, or the statement of the generic
\* back-end
InstructionText(ins) ==
    IF ins.op = "OpExtInst" THEN Tok("call", emit_glsl_op(ins), 0)
    ELSE IF ins.op = "OpStore" /\ "rhs" \in DOMAIN ins /\ maybe_emit_array_assignment(ins)
    THEN Tok("call", "spvArrayCopy", 0)
    ELSE Tok(ins.op, 0, 0)

\* the body of a function other than the entry function (the instructions
\* of these functions read no image and load no row-major matrix)
emit_function_body(func) ==
    [k \in DOMAIN func_ops[func] |-> InstructionText(func_ops[func][k])]

\* emit_function(entry_point), line 124: a function is emitted after the
\* functions it calls, each function once; the functions in that order,
\* after those of done, from instruction i of func on
RECURSIVE EmitOrder(_, _, _)
EmitOrder(func, i, done) ==
    IF i > Len(func_ops[func]) THEN Append(done, func)
    ELSE LET ins == func_ops[func][i] IN
         IF ins.op = "OpFunctionCall" /\ ins.callee \notin Range(done)
         THEN EmitOrder(func, i + 1, EmitOrder(ins.callee, 1, done))
         ELSE EmitOrder(func, i + 1, done)

RECURSIVE Prototypes(_)
Prototypes(funcs) ==
    IF funcs = <<>> THEN <<>>
    ELSE emit_function_prototype(Head(funcs)) \o emit_function_body(Head(funcs))
           \o Prototypes(Tail(funcs))

\* the functions the entry function reaches, each a prototype and a body
\* (none in a module whose functions are not modelled)
CalledFunctionPrototypes ==
    IF func_ops = <<>> THEN <<>>
    ELSE LET order == EmitOrder(entry_point, 1, <<>>)
         IN  Prototypes(SubSeq(order, 1, Len(order) - 1))

\* entry_point_args lines 2674-2685: a device pointer for every secondary
\* input block, at the buffer index of the vertex attributes it holds; the
\* blocks of buffers b.. in ascending order
RECURSIVE NonStageInArgs(_)
NonStageInArgs(b) ==
    IF b \notin DOMAIN non_stage_in_input_var_ids THEN <<>>
    ELSE (IF non_stage_in_input_var_ids[b] # 0
          THEN << Tok("input_buffer", non_stage_in_input_var_ids[b], b) >>
          ELSE <<>>)
           \o NonStageInArgs(b + 1)

\* emit_function(entry_point) -> emit_function_prototype -> entry_point_args
EmitPrototype ==
    /\ pc = "prototype"
    /\ LET r == entry_point_args(1, [args |-> <<>>,
                                     ctr |-> next_metal_resource_index,
                                     rbs |-> resource_bindings])
       IN /\ buffer' = Append(buffer \o CalledFunctionPrototypes,
                              Tok("function", entry_point, 0))
                         \o NonStageInArgs(0) \o r.args
          /\ next_metal_resource_index' = r.ctr
          /\ resource_bindings' = r.rbs
    /\ pc' = "body"
    /\ UNCHANGED <<pass_count, force_recompile, result, diagnostic, execution_model,
                   resources, decoration_flags, instrs, ip, base_recompiles,
                   pass_start_flags, barrierVars, emitVars, notDriverVars, locale>>

\* a mutant: the decoration is cleared without asking for another pass
ClearRequestsRecompile_forgotten == force_recompile

\* emit_instruction lines 1430 and 1455
ClearRequestsRecompile == TRUE

\* emit_instruction, OpImageRead and OpImageWrite: the decoration that is
\* dropped when the access is observed
Observed(ins) ==
    IF ins.op = "OpImageRead" THEN "NonReadable" ELSE "NonWritable"

\* a mutant: the decoration stays on the variable
Cleared_kept(flags, decoration) == flags

\* unset_decoration, lines 1428 and 1453
Cleared(flags, decoration) == flags \ {decoration}

\* a mutant: every request counts as a first registration
NewlyInserted_always(registry, spv_func) == TRUE

\* add_convert_row_major_matrix_function lines 2356-2357: rslt.second
NewlyInserted(registry, spv_func) == spv_func \notin registry

\* emit_instruction for the next instruction of the entry function
EmitInstruction ==
    /\ pc = "body"
    /\ ip < Len(instrs)
    /\ ip' = ip + 1
    /\ LET ins == instrs[ip + 1] IN
       IF ins.op = "OpMemoryBarrier"
       THEN /\ buffer' = buffer \o emit_barrier(0, ins.ops[1], ins.ops[2])
            /\ UNCHANGED <<decoration_flags, force_recompile, base_recompiles,
                           pragma_lines, spv_function_implementations>>
       ELSE IF ins.op = "OpControlBarrier"
       THEN /\ buffer' = IF previous_instruction_opcode # "OpMemoryBarrier"
                         THEN buffer \o emit_barrier(ins.ops[1], ins.ops[2], ins.ops[3])
                         ELSE buffer
            /\ UNCHANGED <<decoration_flags, force_recompile, base_recompiles,
                           pragma_lines, spv_function_implementations>>
       ELSE IF "row_major" \in DOMAIN ins
       THEN \* is_non_native_row_major_matrix on the matrix the instruction
            \* loads: add_convert_row_major_matrix_function
            LET spv_func == RowMajorImpl(ins.row_major[1], ins.row_major[2]) IN
            /\ IF spv_func # "" /\ NewlyInserted(spv_function_implementations, spv_func)
               THEN /\ spv_function_implementations' =
                         InsertImpl(spv_function_implementations, spv_func)
                    /\ pragma_lines' = pragma_lines \cup {PragmaOrder[1]}
                    /\ force_recompile' = TRUE
               ELSE UNCHANGED <<spv_function_implementations, pragma_lines,
                                force_recompile>>
            /\ buffer' = Append(buffer, Tok(ins.op, 0, 0))
            /\ UNCHANGED <<decoration_flags, base_recompiles>>
       ELSE IF ins.op \in {"OpImageRead", "OpImageWrite"}
       THEN /\ IF ins.img # 0 /\ Observed(ins) \in decoration_flags[ins.img]
               THEN /\ decoration_flags' =
                          [decoration_flags EXCEPT ![ins.img] = Cleared(@, Observed(ins))]
                    /\ force_recompile' = ClearRequestsRecompile
               ELSE UNCHANGED <<decoration_flags, force_recompile>>
            /\ buffer' = Append(buffer, Tok(ins.op, ins.img, 0))
            /\ UNCHANGED <<base_recompiles, pragma_lines, spv_function_implementations>>
       ELSE IF ins.op = "OpExtInst" \/ (ins.op = "OpStore" /\ "rhs" \in DOMAIN ins)
       THEN \* emit_glsl_op, and OpStore through maybe_emit_array_assignment
            /\ buffer' = Append(buffer, InstructionText(ins))
            /\ UNCHANGED <<decoration_flags, force_recompile, base_recompiles,
                           pragma_lines, spv_function_implementations>>
       ELSE \* CompilerGLSL::emit_instruction: the generic back-end may ask
            \* for another pass
            /\ \E ask \in (IF base_recompiles > 0 THEN BOOLEAN ELSE {FALSE}) :
                 /\ force_recompile' = (force_recompile \/ ask)
                 /\ base_recompiles' = IF ask THEN base_recompiles - 1
                                        ELSE base_recompiles
            /\ buffer' = Append(buffer, Tok(ins.op, 0, 0))
            /\ UNCHANGED <<decoration_flags, pragma_lines, spv_function_implementations>>
    /\ previous_instruction_opcode' = instrs[ip + 1].op
    /\ UNCHANGED <<pc, pass_count, result, diagnostic, execution_model, resources,
                   instrs, resource_bindings, next_metal_resource_index,
                   pass_start_flags, options, constants, header_lines, spec_consts,
                   workgroup_size_id, struct_types, notDriverVars, locale>>

\* lines 126-129: pass_count++, the loop condition and the return
EndPass ==
    /\ pc = "body"
    /\ ip = Len(instrs)
    /\ pass_count' = pass_count + 1
    /\ IF force_recompile
       THEN pc' = "loop" /\ UNCHANGED <<result, locale>>
       ELSE pc' = "returned" /\ result' = <<buffer>> /\ locale' = RestoredLocale
    /\ UNCHANGED <<force_recompile, buffer, diagnostic, execution_model, resources,
                   decoration_flags, instrs, ip, base_recompiles, resource_bindings,
                   next_metal_resource_index, pass_start_flags, barrierVars,
                   emitVars, notDriverVars>>

----------------------------------------------------------------------------
(* The shaders of Spec: two storage images, read and written by the entry  *)
(* function, with any NonReadable / NonWritable decorations.               *)

ImageRes(b) == [cls |-> "Image", storage |-> "UniformConstant", set |-> 0,
                binding |-> b, dim_buffer |-> FALSE]

ImageResources == << ImageRes(0), ImageRes(1) >>

ImageOps ==
    {[op |-> o, img |-> v] : o \in {"OpImageRead", "OpImageWrite"}, v \in 0..2}
      \cup {[op |-> "OpFAdd", img |-> 0]}

DriverStart ==
    /\ pc = "loop"
    /\ pass_count = 0
    /\ force_recompile = FALSE
    /\ buffer = <<>>
    /\ result = <<>>
    /\ diagnostic = ""
    /\ ip = 0
    /\ next_metal_resource_index = ZeroIndex
    /\ id_bound = 1
    /\ previous_instruction_opcode = "OpNop"
    /\ IfaceIdle
    /\ GlobalsIdle
    /\ AlignIdle
    /\ PipelineIdle

Init ==
    /\ DriverStart
    /\ execution_model = "GLCompute"
    /\ resources = ImageResources
    /\ decoration_flags \in [1..2 -> SUBSET {"NonReadable", "NonWritable"}]
    /\ pass_start_flags = decoration_flags
    /\ instrs \in SeqsUpTo(ImageOps, MaxOps)
    /\ base_recompiles \in 0..MaxBaseRecompiles
    /\ resource_bindings = <<>>
    /\ options = [platform |-> "macOS", msl_version |-> 10200]
    /\ constants = <<>>
    /\ NoDeclarations

Next == BeginPass \/ EmitPrototype \/ EmitInstruction \/ EndPass

Spec == Init /\ [][Next]_vars

----------------------------------------------------------------------------
(* The shaders of SpecBind: buffers, textures and samplers in the vertex   *)
(* stage, with user resource-binding records.                              *)

Res(cls, storage, b, dimbuf) ==
    [cls |-> cls, storage |-> storage, set |-> 0, binding |-> b, dim_buffer |-> dimbuf]

ResKinds ==
    { Res("Struct", "Uniform", 0, FALSE),
      Res("Struct", "StorageBuffer", 1, FALSE),
      Res("Struct", "PushConstant", 0, FALSE),
      Res("Image", "UniformConstant", 0, FALSE),
      Res("Sampler", "UniformConstant", 1, FALSE),
      Res("SampledImage", "UniformConstant", 0, FALSE),
      Res("SampledImage", "UniformConstant", 1, TRUE) }

Binding(stage, set, b, base) ==
    [stage |-> stage, desc_set |-> set, binding |-> b,
     msl_buffer |-> base, msl_texture |-> base + 1, msl_sampler |-> base + 2,
     used_by_shader |-> FALSE]

BindingKinds ==
    { Binding("Vertex", 0, 0, 0), Binding("Vertex", 0, 0, 3),
      Binding("Vertex", 0, 1, 3),
      Binding("Vertex", kPushConstDescSet, kPushConstBinding, 3),
      Binding("Fragment", 0, 0, 3), Binding("Vertex", 1, 0, 3) }

InitBind ==
    /\ DriverStart
    /\ execution_model = "Vertex"
    /\ resources \in SeqsUpTo(ResKinds, MaxRes)
    /\ decoration_flags = [i \in DOMAIN resources |-> {}]
    /\ pass_start_flags = decoration_flags
    /\ instrs = << [op |-> "OpFAdd", img |-> 0] >>
    /\ base_recompiles = 1
    /\ resource_bindings \in SeqsUpTo(BindingKinds, MaxBindings)
    /\ options = [platform |-> "macOS", msl_version |-> 10200]
    /\ constants = <<>>
    /\ NoDeclarations

SpecBind == InitBind /\ [][Next]_vars

----------------------------------------------------------------------------
(* Claims about the driver loop.                                           *)

\* C1: compile() runs at most three emission passes.  It returns the output
\* of pass k (k <= 3) as soon as a pass ends with force_recompile unset; if
\* the third pass ends with force_recompile set it throws, without starting
\* a fourth pass and without returning any output.
C1_AtMostThreePasses ==
    /\ [](/\ pass_count <= 3
          /\ (pc \in {"prototype", "body"} => pass_count <= 2)
          /\ (pc = "returned" =>
                 /\ result = <<buffer>>
                 /\ ~force_recompile
                 /\ pass_count \in 1..3)
          /\ (pc # "returned" => result = <<>>)
          /\ (pc = "thrown" =>
                 /\ pass_count = 3 /\ force_recompile
                 /\ diagnostic = "Over 3 compilation loops detected. Must be a bug!"))
    /\ [][/\ ((pc = "body" /\ ip = Len(instrs) /\ ~force_recompile)
                 => (pc' = "returned" /\ result' = <<buffer>>))
           /\ ((pc = "body" /\ ip = Len(instrs) /\ force_recompile)
                 => (pc' = "loop" /\ pass_count' = pass_count + 1))
           /\ ((pc = "loop" /\ pass_count = 3) => pc' = "thrown")
           /\ ((pc = "loop" /\ pass_count < 3) => pc' = "prototype")]_vars

\* the third pass ended with force_recompile set and compile() threw
C1_Witness == pc = "thrown" /\ pass_count = 3 /\ result = <<>>

\* C2: whenever compile() returns, the pass whose output is returned
\* cleared no image decoration: every image variable reached by an
\* OpImageRead lacked NonReadable, and every one reached by an OpImageWrite
\* lacked NonWritable, when that pass began.
C2_ReturnedPassClearedNothing ==
    pc = "returned" =>
        /\ decoration_flags = pass_start_flags
        /\ \A i \in DOMAIN instrs :
              instrs[i].img # 0 =>
                /\ (instrs[i].op = "OpImageRead"
                      => "NonReadable" \notin pass_start_flags[instrs[i].img])
                /\ (instrs[i].op = "OpImageWrite"
                      => "NonWritable" \notin pass_start_flags[instrs[i].img])

\* compile() returned the second pass of a shader whose only instructions
\* are image reads and writes: the first pass cleared a decoration
C2_Witness ==
    /\ pc = "returned"
    /\ pass_count = 2
    /\ instrs # <<>>
    /\ \A i \in DOMAIN instrs : instrs[i].op # "OpFAdd" /\ instrs[i].img # 0

----------------------------------------------------------------------------
(* Claims about binding-index assignment.                                  *)

\* the binding classes a resource takes an index from
ClassesOf(res) ==
    CASE res.cls = "Struct" -> <<"buffer">>
      [] res.cls = "Image" -> <<"texture">>
      [] res.cls = "Sampler" -> <<"sampler">>
      [] res.cls = "SampledImage" ->
            IF res.dim_buffer THEN <<"texture">> ELSE <<"texture", "sampler">>

HasClass(res, c) == \E k \in DOMAIN ClassesOf(res) : ClassesOf(res)[k] = c

\* the records of the user that match the resource
Matches(res) ==
    {m \in DOMAIN resource_bindings :
        /\ resource_bindings[m].stage = execution_model
        /\ IF res.storage = "PushConstant"
           THEN /\ resource_bindings[m].desc_set = kPushConstDescSet
                /\ resource_bindings[m].binding = kPushConstBinding
           ELSE /\ resource_bindings[m].desc_set = res.set
                /\ resource_bindings[m].binding = res.binding}

RecordIndex(rb, c) ==
    CASE c = "buffer" -> rb.msl_buffer
      [] c = "texture" -> rb.msl_texture
      [] c = "sampler" -> rb.msl_sampler

\* the arguments of the running pass, in the order they were emitted
ArgsOf(buf) == SelectSeq(buf, LAMBDA t : t.kind \in {"buffer", "texture", "sampler"})

\* C6: in every emission pass, a resource matching a user record receives
\* that record's index for its class and the record is flagged
\* used_by_shader; the resources without a matching record receive
\* 0, 1, 2, ... per class in ID order, starting again from 0 in each pass.
C6_BindingIndices ==
    pc \in {"body", "returned"} =>
      LET args == ArgsOf(buffer) IN
        \* every resource has one argument per class, in ID order
        /\ \A r \in DOMAIN resources : \A c \in Range(ClassesOf(resources[r])) :
              Cardinality({a \in DOMAIN args :
                              args[a].var = r /\ args[a].kind = c}) = 1
        /\ \A a \in DOMAIN args :
              /\ args[a].var \in DOMAIN resources
              /\ HasClass(resources[args[a].var], args[a].kind)
              /\ \A b \in DOMAIN args : a < b => args[a].var <= args[b].var
        /\ \A a \in DOMAIN args :
              LET res == resources[args[a].var]
                  c   == args[a].kind
              IN  IF Matches(res) # {}
                  THEN /\ args[a].index = RecordIndex(resource_bindings[Min(Matches(res))], c)
                       /\ resource_bindings[Min(Matches(res))].used_by_shader
                  ELSE args[a].index =
                         Cardinality({j \in 1..(args[a].var - 1) :
                                         /\ HasClass(resources[j], c)
                                         /\ Matches(resources[j]) = {}})

\* a second pass in which one resource took its index from a record and
\* two others took 0 and 1 from the same counter
C6_Witness ==
    /\ pc = "body"
    /\ pass_count = 1
    /\ \E r \in DOMAIN resources : Matches(resources[r]) # {}
    /\ \E a, b \in DOMAIN ArgsOf(buffer) :
          /\ ArgsOf(buffer)[a].kind = ArgsOf(buffer)[b].kind
          /\ ArgsOf(buffer)[a].index = 0 /\ ArgsOf(buffer)[b].index = 1
          /\ Matches(resources[ArgsOf(buffer)[a].var]) = {}
          /\ Matches(resources[ArgsOf(buffer)[b].var]) = {}
----------------------------------------------------------------------------
(* Interface-block synthesis: add_interface_block and the secondary input  *)
(* buffer blocks.                                                          *)
(*                                                                         *)
(* A type is modelled by its shape ("vec" for scalars and vectors, "mat",  *)
(* "arr") and by the variable or block member it comes from:               *)
(* src = <<variable, member>>, member 0 for a variable that is no block.   *)

\* line 27: ~0 (-1 is the same bit pattern)
k_unknown_location == -1

IfaceStorages == {"Input", "Output", "UniformConstant"}

MslBuffers == {0, 1}

NoAttr == [present |-> FALSE, msl_buffer |-> 0, msl_offset |-> 0, msl_stride |-> 0,
           per_instance |-> FALSE, used_by_shader |-> FALSE]

\* vtx_attrs_by_location[location]: a location without record reads as null
VtxAttr(attrs, locn) == IF locn \in DOMAIN attrs THEN attrs[locn] ELSE NoAttr

MemberType(src, shape) == [src |-> src, shape |-> shape]

MemberMeta(alias, has_location, location, builtin, binding, offset) ==
    [alias |-> alias, has_location |-> has_location, location |-> location,
     builtin |-> builtin, binding |-> binding, offset |-> offset]

EmptyStruct == [member_types |-> <<>>, members |-> <<>>]

\* a mutant: a fragment output may hold a matrix or an array
should_move_to_input_buffer_frag_out_allowed(shape, is_builtin, storage) ==
    IF shape \in {"mat", "arr"} /\ ~is_builtin
    THEN IF execution_model = "Vertex"
         THEN IF storage = "Input" THEN "true"
              ELSE IF storage = "Output"
                   THEN "The vertex function output structure may not include a matrix or array."
                   ELSE "false"
         ELSE IF execution_model = "Fragment" /\ storage = "Input"
              THEN "The fragment function stage_in structure may not include a matrix or array."
              ELSE "false"
    ELSE "false"

\* should_move_to_input_buffer: "true", "false", or the diagnostic thrown
should_move_to_input_buffer(shape, is_builtin, storage) ==
    IF shape \in {"mat", "arr"} /\ ~is_builtin
    THEN IF execution_model = "Vertex"
         THEN IF storage = "Input" THEN "true"
              ELSE IF storage = "Output"
                   THEN "The vertex function output structure may not include a matrix or array."
                   ELSE "false"
         ELSE IF execution_model = "Fragment"
              THEN IF storage = "Input"
                   THEN "The fragment function stage_in structure may not include a matrix or array."
                   ELSE IF storage = "Output"
                        THEN "The fragment function output structure may not include a matrix or array."
                        ELSE "false"
              ELSE "false"
    ELSE "false"

\* mark_location_as_used_by_shader
mark_location_as_used_by_shader(st, locn, storage) ==
    IF /\ execution_model = "Vertex"
       /\ storage = "Input"
       /\ VtxAttr(st.attrs, locn).present
    THEN [st EXCEPT !.attrs[locn].used_by_shader = TRUE]
    ELSE st

\* get_input_buffer_block_var_id: the block of the buffer, created on demand
get_input_buffer_block_var_id(st, msl_buffer) ==
    IF st.nsi_ids[msl_buffer] # 0 THEN st
    ELSE [st EXCEPT !.bound = @ + 3,
                    !.nsi_ids[msl_buffer] = st.bound + 1]

\* add_input_buffer_block_member
add_input_buffer_block_member(st, mbr_type, mbr_name, mbr_locn) ==
    LET st1  == mark_location_as_used_by_shader(st, mbr_locn, "Input")
        p_va == VtxAttr(st1.attrs, mbr_locn)
    IN  IF ~p_va.present THEN st1
        ELSE LET st2 == get_input_buffer_block_var_id(st1, p_va.msl_buffer) IN
             [st2 EXCEPT
                !.needs_instance_idx_arg = @ \/ p_va.per_instance,
                !.needs_vertex_idx_arg = @ \/ ~p_va.per_instance,
                !.nsi[p_va.msl_buffer] =
                    [member_types |-> Append(@.member_types, mbr_type),
                     members |-> Append(@.members,
                         MemberMeta(mbr_name, TRUE, k_unknown_location, FALSE,
                                    p_va.msl_buffer, p_va.msl_offset))]]

\* add_interface_block lines 489-523 and 542-568: the member is appended
\* to the interface struct with its location and built-in decoration
AddMember(st, storage, mbr_type, has_locn, locn, is_builtin) ==
    LET st1 == [st EXCEPT
                  !.member_types = Append(@, mbr_type),
                  !.members = Append(@, MemberMeta(mbr_type.src, has_locn,
                                          IF has_locn THEN locn ELSE 0,
                                          is_builtin, 0, 0))]
    IN  IF has_locn THEN mark_location_as_used_by_shader(st1, locn, storage)
        ELSE st1

\* add_interface_block lines 480-524 and 534-569: one block member or one
\* variable.  mv is the location move_to_input_buffer reads, ad the one the
\* interface struct records
ProcessOne(st, storage, src, shape, builtin, mv, ad) ==
    IF st.thrown # "" THEN st
    ELSE
      LET is_builtin == builtin # "none"
          d == should_move_to_input_buffer(shape, is_builtin, storage)
      IN  IF d = "true"
          THEN IF mv.has THEN add_input_buffer_block_member(st, MemberType(src, shape),
                                                            src, mv.loc)
               ELSE st
          ELSE IF d # "false" THEN [st EXCEPT !.thrown = d]
          ELSE IF ~is_builtin \/ builtin = "active"
               THEN AddMember(st, storage, MemberType(src, shape), ad.has, ad.loc,
                              is_builtin)
               ELSE st

Locn(has, loc) == [has |-> has, loc |-> loc]

\* add_interface_block lines 476-527: the members of a block are flattened
RECURSIVE FlattenMembers(_, _, _, _)
FlattenMembers(st, storage, v, k) ==
    LET var == iface_vars[v] IN
    IF k > Len(var.members) THEN st
    ELSE LET m  == var.members[k]
             mv == Locn(m.has_location, m.location)
             ad == IF m.has_location THEN mv
                   ELSE IF var.has_location THEN Locn(TRUE, var.location + (k - 1))
                   ELSE Locn(FALSE, 0)
         IN FlattenMembers(ProcessOne(st, storage, <<v, k>>, m.shape, m.builtin, mv, ad),
                           storage, v, k + 1)

\* is_builtin_variable: a built-in, or a block with a built-in member
is_builtin_variable(var) ==
    \/ var.builtin # "none"
    \/ \E k \in DOMAIN var.members : var.members[k].builtin # "none"

\* add_interface_block lines 398-411: the variables that go into the block.
\* The field qualifies is the verdict of interface_variable_exists_in_entry_point,
\* of the activity test of is_hidden_variable and of type.pointer; a
\* built-in variable is hidden unless incl_builtins
QualifyingVars(storage) ==
    LET incl_builtins == (storage = "Output") IN
    {v \in DOMAIN iface_vars :
        /\ iface_vars[v].storage = storage
        /\ iface_vars[v].qualifies
        /\ (is_builtin_variable(iface_vars[v]) => incl_builtins)}

\* add_interface_block lines 470-571: the loop over the accumulated variables
RECURSIVE ProcessVars(_, _, _)
ProcessVars(st, storage, v) ==
    IF v > Len(iface_vars) THEN st
    ELSE LET var == iface_vars[v] IN
         IF v \notin QualifyingVars(storage) THEN ProcessVars(st, storage, v + 1)
         ELSE IF var.basetype = "Struct"
              THEN ProcessVars(FlattenMembers(st, storage, v, 1), storage, v + 1)
         ELSE IF var.basetype \in {"Boolean", "Char", "Int", "UInt", "Int64", "UInt64",
                                   "Float", "Double"}
              THEN ProcessVars(
                     ProcessOne(st, storage, <<v, 0>>, var.shape, var.builtin,
                                Locn(var.has_location, var.location),
                                Locn(var.has_location, var.location)),
                     storage, v + 1)
         ELSE ProcessVars(st, storage, v + 1)

\* a mutant: every block is sorted by ascending location
sort_aspect_always_ascending(storage) == "Location"

\* add_interface_block lines 575-576
sort_aspect(storage) ==
    IF storage = "Input" THEN "LocationReverse" ELSE "Location"

\* MemberSorter::operator()
MemberLess(m1, m2, aspect) ==
    IF m1.builtin # m2.builtin THEN m2.builtin
    ELSE CASE aspect = "Location" -> m1.location < m2.location
           [] aspect = "LocationReverse" -> m1.location > m2.location
           [] aspect = "Offset" -> m1.offset < m2.offset
           [] aspect = "OffsetThenLocationReverse" ->
                 \/ m1.offset < m2.offset
                 \/ (m1.offset = m2.offset /\ m1.location > m2.location)
           [] OTHER -> FALSE

\* std::sort on the member indices: every arrangement of the indices S in
\* which no element is ordered before one it is less than (the order of
\* equivalent members is unspecified)
RECURSIVE SortedOrders(_, _, _)
SortedOrders(S, members, aspect) ==
    IF S = {} THEN {<<>>}
    ELSE UNION { { <<i>> \o t : t \in SortedOrders(S \ {i}, members, aspect) } :
                 i \in {j \in S : \A o \in S :
                                     ~MemberLess(members[o], members[j], aspect)} }

\* MemberSorter::sort lines 3566-3572: types and meta moved to the sorted order
Reordered(struct, mbr_idxs) ==
    [member_types |-> [i \in DOMAIN mbr_idxs |-> struct.member_types[mbr_idxs[i]]],
     members      |-> [i \in DOMAIN mbr_idxs |-> struct.members[mbr_idxs[i]]]]

\* add_interface_block lines 413-415
ReturnsNull(storage) == QualifyingVars(storage) = {}

NextIfacePc(storage) ==
    CASE storage = "Input" -> "iface_out"
      [] storage = "Output" -> "iface_uniform"
      [] storage = "UniformConstant" -> "iface_done"

Blk(terminator, return_value) ==
    [terminator |-> terminator, return_value |-> return_value]

\* a mutant: every block of the entry function returns the output struct
ReturnsFromFunction_any_block(blk) == TRUE

\* add_interface_block line 450
ReturnsFromFunction(blk) == blk.terminator = "Return"

\* add_interface_block lines 438-454: the output struct becomes a local of
\* the entry function, which returns it from every block that returns
AddStageOutLocal(storage, ib_var_id) ==
    IF storage = "Output"
    THEN /\ entry_local_variables' = Append(entry_local_variables, ib_var_id)
         /\ func_blocks' =
               [func_blocks EXCEPT ![entry_point] =
                  [b \in DOMAIN @ |->
                     IF ReturnsFromFunction(@[b])
                     THEN [@[b] EXCEPT !.return_value = ib_var_id]
                     ELSE @[b]]]
    ELSE UNCHANGED <<entry_local_variables, func_blocks>>

\* compile() lines 91-93: stage_*_var_id = add_interface_block(storage)
AddInterfaceBlock(storage) ==
    LET st0 == [member_types |-> <<>>, members |-> <<>>,
                nsi_ids |-> non_stage_in_input_var_ids, nsi |-> nsi_types,
                bound |-> id_bound + 3, thrown |-> "",
                attrs |-> vtx_attrs_by_location,
                needs_vertex_idx_arg |-> needs_vertex_idx_arg,
                needs_instance_idx_arg |-> needs_instance_idx_arg]
        st  == ProcessVars(st0, storage, 1)
        ib_var_id == id_bound + 1
        Commit(id, struct) ==
            /\ stage_in_var_id' = IF storage = "Input" THEN id ELSE stage_in_var_id
            /\ stage_out_var_id' = IF storage = "Output" THEN id ELSE stage_out_var_id
            /\ stage_uniforms_var_id' =
                   IF storage = "UniformConstant" THEN id ELSE stage_uniforms_var_id
            /\ ib_types' = [ib_types EXCEPT ![storage] = struct]
    IN
    IF ReturnsNull(storage)
    THEN /\ Commit(0, EmptyStruct)
         /\ pc' = NextIfacePc(storage)
         /\ UNCHANGED <<diagnostic, id_bound, ib_added, non_stage_in_input_var_ids,
                        nsi_types, vtx_attrs_by_location, needs_vertex_idx_arg,
                        needs_instance_idx_arg, entry_local_variables, func_blocks,
                        locale>>
    ELSE /\ id_bound' = st.bound
         /\ AddStageOutLocal(storage, ib_var_id)
         /\ non_stage_in_input_var_ids' = st.nsi_ids
         /\ nsi_types' = st.nsi
         /\ vtx_attrs_by_location' = st.attrs
         /\ needs_vertex_idx_arg' = st.needs_vertex_idx_arg
         /\ needs_instance_idx_arg' = st.needs_instance_idx_arg
         /\ ib_added' = [ib_added EXCEPT ![storage] =
                            [member_types |-> st.member_types, members |-> st.members]]
         /\ IF st.thrown # ""
            THEN /\ pc' = "thrown"
                 /\ diagnostic' = st.thrown
                 /\ locale' = RestoredLocale
                 /\ UNCHANGED <<stage_in_var_id, stage_out_var_id,
                                stage_uniforms_var_id, ib_types>>
            ELSE /\ pc' = NextIfacePc(storage)
                 /\ UNCHANGED <<diagnostic, locale>>
                 /\ \E mbr_idxs \in SortedOrders(DOMAIN st.members, st.members,
                                                 sort_aspect(storage)) :
                       Commit(ib_var_id,
                              Reordered([member_types |-> st.member_types,
                                         members |-> st.members], mbr_idxs))

ifaceFrame ==
    UNCHANGED <<result, execution_model, iface_vars, driverVars, var_storage,
                orig_storage, global_variables, func_ops, func_arguments,
                function_global_vars, alignVars, frameVars>>

AddInputBlock == pc = "iface_in" /\ AddInterfaceBlock("Input") /\ ifaceFrame

AddOutputBlock == pc = "iface_out" /\ AddInterfaceBlock("Output") /\ ifaceFrame

AddUniformBlock ==
    pc = "iface_uniform" /\ AddInterfaceBlock("UniformConstant") /\ ifaceFrame

----------------------------------------------------------------------------
(* The shaders of SpecIface.                                               *)

MaxVars == 2             \* interface variables of the shader

Mbr(shape, builtin, has_location, location) ==
    [shape |-> shape, builtin |-> builtin, has_location |-> has_location,
     location |-> location]

Plain(storage, shape, builtin, has_location, location) ==
    [storage |-> storage, qualifies |-> TRUE, basetype |-> "Float", shape |-> shape,
     builtin |-> builtin, has_location |-> has_location, location |-> location,
     members |-> <<>>]

Block(storage, has_location, location, members) ==
    [storage |-> storage, qualifies |-> TRUE, basetype |-> "Struct", shape |-> "vec",
     builtin |-> "none", has_location |-> has_location, location |-> location,
     members |-> members]

InOutKinds(s) ==
    { Plain(s, "vec", "none", TRUE, 0),
      Plain(s, "vec", "none", TRUE, 1),
      Plain(s, "vec", "none", FALSE, 0),
      Plain(s, "mat", "none", TRUE, 0),
      Plain(s, "mat", "none", FALSE, 0),
      Plain(s, "arr", "none", TRUE, 1),
      Block(s, FALSE, 0, << Mbr("vec", "none", TRUE, 1), Mbr("mat", "none", TRUE, 0) >>),
      Block(s, TRUE, 0, << Mbr("vec", "none", FALSE, 0), Mbr("mat", "none", FALSE, 0) >>) }

BuiltinKinds ==
    { Plain("Input", "arr", "active", FALSE, 0),
      Plain("Output", "arr", "active", FALSE, 0),
      Plain("Output", "vec", "inactive", FALSE, 0),
      Block("Output", FALSE, 0,
            << Mbr("vec", "active", FALSE, 0), Mbr("vec", "inactive", FALSE, 0) >>) }

VarKinds ==
    InOutKinds("Input") \cup InOutKinds("Output") \cup BuiltinKinds
      \cup { Plain("UniformConstant", "vec", "none", TRUE, 0),
             [Plain("UniformConstant", "vec", "none", FALSE, 0)
                 EXCEPT !.basetype = "SampledImage"],
             [Plain("Input", "mat", "none", TRUE, 0) EXCEPT !.qualifies = FALSE] }

Attr(buf, per_instance) ==
    [present |-> TRUE, msl_buffer |-> buf, msl_offset |-> 0, msl_stride |-> 16,
     per_instance |-> per_instance, used_by_shader |-> FALSE]

AttrConfigs ==
    { [l \in {0, 1} |-> NoAttr],
      [l \in {0, 1} |-> IF l = 0 THEN Attr(1, FALSE) ELSE NoAttr],
      [l \in {0, 1} |-> Attr(1, FALSE)],
      [l \in {0, 1} |-> IF l = 0 THEN Attr(0, TRUE) ELSE Attr(1, FALSE)] }

IfaceStart ==
    /\ pc = "iface_in"
    /\ result = <<>>
    /\ diagnostic = ""
    /\ execution_model \in {"Vertex", "Fragment", "GLCompute"}
    /\ DriverIdle
    /\ GlobalsIdle
    /\ AlignIdle
    /\ PipelineIdle
    /\ id_bound = Len(iface_vars) + 1
    /\ stage_in_var_id = 0
    /\ stage_out_var_id = 0
    /\ stage_uniforms_var_id = 0
    /\ ib_types = [s \in IfaceStorages |-> EmptyStruct]
    /\ ib_added = [s \in IfaceStorages |-> EmptyStruct]
    /\ non_stage_in_input_var_ids = [b \in MslBuffers |-> 0]
    /\ nsi_types = [b \in MslBuffers |-> EmptyStruct]
    /\ needs_vertex_idx_arg = FALSE
    /\ needs_instance_idx_arg = FALSE

InitIface ==
    /\ iface_vars \in [1..MaxVars -> VarKinds]
    /\ vtx_attrs_by_location \in AttrConfigs
    /\ func_blocks = << <<Blk("Return", 0)>> >>
    /\ IfaceStart

NextIface == AddInputBlock \/ AddOutputBlock \/ AddUniformBlock

SpecIface == InitIface /\ [][NextIface]_vars

----------------------------------------------------------------------------
(* Claims about interface-block synthesis (SpecIface).                     *)

\* add_interface_block(storage) has returned
Called(storage) ==
    CASE storage = "Input" -> pc \in {"iface_out", "iface_uniform", "iface_done"}
      [] storage = "Output" -> pc \in {"iface_uniform", "iface_done"}
      [] storage = "UniformConstant" -> pc = "iface_done"

StageVarId(storage) ==
    CASE storage = "Input" -> stage_in_var_id
      [] storage = "Output" -> stage_out_var_id
      [] storage = "UniformConstant" -> stage_uniforms_var_id

\* the numeric variables and flattened block members of the shader's
\* interface of a storage class, each with the location it is declared at
InterfaceMembers(storage) ==
    LET vs == QualifyingVars(storage)
    IN  { [src |-> <<v, 0>>, shape |-> iface_vars[v].shape,
           builtin |-> iface_vars[v].builtin,
           has_location |-> iface_vars[v].has_location,
           location |-> iface_vars[v].location] :
             v \in {w \in vs : iface_vars[w].basetype = "Float"} }
        \cup
        UNION { { [src |-> <<v, k>>, shape |-> iface_vars[v].members[k].shape,
                   builtin |-> iface_vars[v].members[k].builtin,
                   has_location |-> iface_vars[v].members[k].has_location
                                      \/ iface_vars[v].has_location,
                   location |-> IF iface_vars[v].members[k].has_location
                                THEN iface_vars[v].members[k].location
                                ELSE iface_vars[v].location + (k - 1)] :
                     k \in DOMAIN iface_vars[v].members } :
                v \in {w \in vs : iface_vars[w].basetype = "Struct"} }

Offending(storage) ==
    \E m \in InterfaceMembers(storage) : m.shape \in {"mat", "arr"} /\ m.builtin = "none"

SrcsOf(struct) == {struct.member_types[i].src : i \in DOMAIN struct.member_types}

\* C7 as stated: add_interface_block returns the null ID whenever the
\* synthesized struct gets no member, and a non-zero ID only when the struct
\* has at least one member.
C7_Original ==
    \A s \in IfaceStorages :
        Called(s) =>
            /\ (ib_added[s].member_types = <<>> => StageVarId(s) = 0)
            /\ (StageVarId(s) # 0 => Len(ib_types[s].member_types) >= 1)

\* C8 as stated: in vertex-stage Input synthesis every non-built-in matrix
\* or array input is absent from the stage_in struct and is a member of
\* exactly one secondary input block, the one of the msl_buffer of the
\* vertex-attribute record matching its location; an input that is neither
\* is in no secondary block, and with only such inputs no block exists.
C8_Original ==
    (execution_model = "Vertex" /\ Called("Input")) =>
        /\ \A m \in InterfaceMembers("Input") :
              IF m.shape \in {"mat", "arr"} /\ m.builtin = "none"
              THEN /\ m.src \notin SrcsOf(ib_types["Input"])
                   /\ m.has_location
                   /\ VtxAttr(vtx_attrs_by_location, m.location).present
                   /\ \A b \in MslBuffers :
                         LET n == Cardinality({i \in DOMAIN nsi_types[b].member_types :
                                                 nsi_types[b].member_types[i].src = m.src})
                         IN  n = IF b = VtxAttr(vtx_attrs_by_location, m.location).msl_buffer
                                 THEN 1 ELSE 0
              ELSE \A b \in MslBuffers : m.src \notin SrcsOf(nsi_types[b])
        /\ (~Offending("Input") =>
               \A b \in MslBuffers : non_stage_in_input_var_ids[b] = 0)

\* C9: a fragment shader with a non-built-in matrix or array in its Input
\* or Output interface, and a vertex shader with one in its Output
\* interface, fail with the diagnostic naming that structure and give no
\* MSL text; synthesis fails in no other case, so a built-in never fails it.
C9_MatrixOrArrayRejected ==
    /\ (execution_model = "Fragment" /\ Offending("Input") /\ pc # "iface_in") =>
          (/\ pc = "thrown"
           /\ diagnostic = "The fragment function stage_in structure may not include a matrix or array."
           /\ result = <<>>)
    /\ (/\ execution_model = "Fragment"
        /\ ~Offending("Input")
        /\ Offending("Output")
        /\ pc \notin {"iface_in", "iface_out"}) =>
          (/\ pc = "thrown"
           /\ diagnostic = "The fragment function output structure may not include a matrix or array."
           /\ result = <<>>)
    /\ (/\ execution_model = "Vertex"
        /\ Offending("Output")
        /\ pc \notin {"iface_in", "iface_out"}) =>
          (/\ pc = "thrown"
           /\ diagnostic = "The vertex function output structure may not include a matrix or array."
           /\ result = <<>>)
    /\ (pc = "thrown") =>
          \/ execution_model = "Fragment" /\ (Offending("Input") \/ Offending("Output"))
          \/ execution_model = "Vertex" /\ Offending("Output")

C9_Witness ==
    /\ pc = "thrown"
    /\ execution_model = "Fragment"
    /\ diagnostic = "The fragment function output structure may not include a matrix or array."
    /\ \E m \in InterfaceMembers("Output") : m.shape = "arr" /\ m.builtin = "active"

\* C10: after add_interface_block the struct holds the members that were
\* added, each type with its own metadata; no built-in member precedes a
\* non-built-in one; the non-built-in members are in descending location
\* order for Input and in ascending order for Output and UniformConstant.
C10_MembersSorted ==
    \A s \in IfaceStorages :
        StageVarId(s) # 0 =>
            LET t == ib_types[s]
                a == ib_added[s]
                n == Len(t.members)
            IN  /\ Len(t.member_types) = n
                /\ Len(a.members) = n
                /\ Len(a.member_types) = n
                /\ \A i \in 1..n :
                      Cardinality({j \in 1..n : /\ t.member_types[j] = a.member_types[i]
                                                /\ t.members[j] = a.members[i]}) = 1
                /\ \A i \in 1..n : t.members[i].alias = t.member_types[i].src
                /\ \A i, j \in 1..n :
                      (i < j) =>
                         /\ ~(t.members[i].builtin /\ ~t.members[j].builtin)
                         /\ (~t.members[i].builtin /\ ~t.members[j].builtin) =>
                               IF s = "Input"
                               THEN t.members[i].location >= t.members[j].location
                               ELSE t.members[i].location <= t.members[j].location

C10_Witness ==
    /\ pc = "iface_done"
    /\ stage_out_var_id # 0
    /\ Len(ib_types["Output"].members) = 2
    /\ ib_types["Output"] # ib_added["Output"]
    /\ ~ib_types["Output"].members[1].builtin
    /\ ib_types["Output"].members[2].builtin

----------------------------------------------------------------------------
(* Global variables: localize_global_variables and                         *)
(* extract_global_variables_from_functions.                                *)
(*                                                                         *)
(* Variables are numbered 1..Len(var_storage), functions 1..Len(func_ops). *)
(* An instruction names the variable it works on (var, 0 for none), the    *)
(* function it calls (callee) and the variables it passes (args).          *)

Ins(op, var, callee, args) == [op |-> op, var |-> var, callee |-> callee, args |-> args]

\* a mutant: Workgroup variables are left at module scope
IsLocalized_private_only(storage) == storage = "Private"

\* localize_global_variables line 186
IsLocalized(storage) == storage \in {"Private", "Workgroup"}

\* localize_global_variables
LocalizeGlobalVariables ==
    /\ pc \in {"localize", "iface_done"}
    /\ LET Moves(v) == IsLocalized(var_storage[v])
           Stays(v) == ~IsLocalized(var_storage[v])
       IN  /\ var_storage' = [v \in DOMAIN var_storage |->
                                IF v \in Range(global_variables) /\ Moves(v)
                                THEN "Function" ELSE var_storage[v]]
           /\ entry_local_variables' =
                  entry_local_variables \o SelectSeq(global_variables, Moves)
           /\ global_variables' = SelectSeq(global_variables, Stays)
    /\ pc' = "extract"
    /\ UNCHANGED <<result, diagnostic, execution_model, id_bound, orig_storage, func_ops,
                   func_arguments, function_global_vars, driverVars, ifaceVars,
                   alignVars, frameVars, locale>>

\* extract_global_variables_from_functions lines 218-236
global_var_ids ==
    {v \in DOMAIN var_storage :
        var_storage[v] \in {"Input", "Uniform", "UniformConstant", "PushConstant",
                            "StorageBuffer"}}
      \cup Range(entry_local_variables)

\* the iteration order of std::set<uint32_t>
RECURSIVE Ascending(_)
Ascending(S) ==
    IF S = {} THEN <<>> ELSE <<Min(S)>> \o Ascending(S \ {Min(S)})

\* extract_global_variables_from_function lines 310-326: one parameter per
\* added argument, with a fresh ID, standing for the variable arg_id
AddParameters(func_id, added_arg_ids, st) ==
    LET order == Ascending(added_arg_ids) IN
    [st EXCEPT
       !.bound = @ + Cardinality(added_arg_ids),
       !.arguments[func_id] =
           @ \o [k \in DOMAIN order |->
                   [id |-> st.bound + (k - 1), basevariable |-> order[k]]]]

RECURSIVE extract_global_variables_from_function(_, _, _)
RECURSIVE ScanOps(_, _, _, _)

\* extract_global_variables_from_function lines 263-305, from instruction i on
ScanOps(func_id, i, added_arg_ids, st) ==
    IF i > Len(func_ops[func_id]) THEN [added |-> added_arg_ids, st |-> st]
    ELSE
      LET ins == func_ops[func_id][i] IN
      IF ins.op \in {"OpLoad", "OpAccessChain"}
      THEN ScanOps(func_id, i + 1,
                   IF ins.var \in global_var_ids THEN added_arg_ids \cup {ins.var}
                   ELSE added_arg_ids,
                   st)
      ELSE IF ins.op = "OpFunctionCall"
      THEN LET inner == extract_global_variables_from_function(ins.callee, {}, st) IN
           ScanOps(func_id, i + 1,
                   added_arg_ids \cup (ins.args \cap global_var_ids) \cup inner.added,
                   inner.st)
      ELSE ScanOps(func_id, i + 1, added_arg_ids, st)

\* extract_global_variables_from_function: the set it leaves in added_arg_ids
\* and the state it leaves (processed_func_ids, function_global_vars, the
\* parameters added, the ID bound)
extract_global_variables_from_function(func_id, added_arg_ids, st) ==
    IF func_id \in st.processed_func_ids
    THEN [added |-> st.function_global_vars[func_id], st |-> st]
    ELSE
      LET r   == ScanOps(func_id, 1, added_arg_ids,
                         [st EXCEPT !.processed_func_ids = @ \cup {func_id}])
          st2 == [r.st EXCEPT !.function_global_vars[func_id] = r.added]
      IN  [added |-> r.added,
           st |-> IF func_id # entry_point THEN AddParameters(func_id, r.added, st2)
                  ELSE st2]

\* extract_global_variables_from_functions
ExtractGlobalVariablesFromFunctions ==
    /\ pc = "extract"
    /\ LET r == extract_global_variables_from_function(entry_point, {},
                   [processed_func_ids |-> {},
                    function_global_vars |-> function_global_vars,
                    arguments |-> func_arguments,
                    bound |-> id_bound])
       IN  /\ function_global_vars' = r.st.function_global_vars
           /\ func_arguments' = r.st.arguments
           /\ id_bound' = r.st.bound
    /\ pc' = "globals_done"
    /\ UNCHANGED <<result, diagnostic, execution_model, var_storage, orig_storage,
                   global_variables, entry_local_variables, func_ops, driverVars,
                   ifaceVars, alignVars, frameVars, locale>>

NextGlobals == LocalizeGlobalVariables \/ ExtractGlobalVariablesFromFunctions

----------------------------------------------------------------------------
(* The modules of SpecGlobals (function bodies vary) and of SpecLocalize   *)
(* (storage classes vary).                                                 *)

MaxBody == 2             \* instructions of a function body
MaxGlobals == 3          \* module-scope variables of SpecLocalize

StorageClasses ==
    {"Private", "Workgroup", "Input", "Output", "Uniform", "UniformConstant",
     "PushConstant", "StorageBuffer"}

\* function 3 calls nothing
LeafOps ==
    { Ins("OpLoad", 1, 0, {}), Ins("OpAccessChain", 2, 0, {}),
      Ins("OpStore", 1, 0, {}), Ins("OpStore", 2, 0, {}), Ins("OpFAdd", 0, 0, {}) }

\* function 2 may call function 3
MidOps ==
    { Ins("OpLoad", 2, 0, {}), Ins("OpStore", 1, 0, {}),
      Ins("OpFunctionCall", 0, 3, {}), Ins("OpFunctionCall", 0, 3, {1}) }

\* the entry function may call both
EntryOps ==
    { Ins("OpLoad", 1, 0, {}), Ins("OpFunctionCall", 0, 2, {}),
      Ins("OpFunctionCall", 0, 2, {2}), Ins("OpFunctionCall", 0, 3, {}) }

\* a module stores only to variables of a writable storage class
StoresAreValid ==
    \A f \in DOMAIN func_ops : \A i \in DOMAIN func_ops[f] :
        (func_ops[f][i].op = "OpStore") =>
            var_storage[func_ops[f][i].var] \in {"Private", "Workgroup", "Output"}

GlobalsStart ==
    /\ pc = "localize"
    /\ result = <<>>
    /\ diagnostic = ""
    /\ execution_model = "GLCompute"
    /\ DriverIdle
    /\ IfaceIdle
    /\ AlignIdle
    /\ PipelineIdle
    /\ orig_storage = var_storage
    /\ global_variables = [i \in 1..Len(var_storage) |-> i]
    /\ entry_local_variables = <<>>
    /\ id_bound = Len(var_storage) + Len(func_ops) + 1
    /\ func_arguments = [f \in DOMAIN func_ops |-> <<>>]
    /\ function_global_vars = [f \in DOMAIN func_ops |-> {}]

InitGlobals ==
    /\ var_storage \in {<<a, b>> : a \in {"Private", "Input", "Output"},
                                   b \in {"Workgroup", "Uniform"}}
    /\ func_ops \in {<<e, m, l>> : e \in SeqsUpTo(EntryOps, MaxBody),
                                   m \in SeqsUpTo(MidOps, MaxBody),
                                   l \in SeqsUpTo(LeafOps, MaxBody)}
    /\ StoresAreValid
    /\ GlobalsStart

InitLocalize ==
    /\ var_storage \in [1..MaxGlobals -> StorageClasses]
    /\ func_ops = << <<Ins("OpFunctionCall", 0, 2, {})>>,
                     <<Ins("OpLoad", 1, 0, {}), Ins("OpAccessChain", 2, 0, {})>> >>
    /\ GlobalsStart

SpecGlobals == InitGlobals /\ [][NextGlobals]_vars

SpecLocalize == InitLocalize /\ [][NextGlobals]_vars

----------------------------------------------------------------------------
(* Claims about the global variables.                                      *)

\* the functions a function calls, directly or through others (calls go
\* to higher-numbered functions in these modules)
RECURSIVE CalledFrom(_)
CalledFrom(f) ==
    LET direct == {func_ops[f][i].callee :
                     i \in {j \in DOMAIN func_ops[f] : func_ops[f][j].op = "OpFunctionCall"}}
    IN  direct \cup UNION {CalledFrom(g) : g \in direct}

\* the variables the body of a function reads, writes, indexes or passes
AccessedIn(f) ==
    UNION { IF func_ops[f][i].op \in {"OpLoad", "OpAccessChain", "OpStore"}
            THEN {func_ops[f][i].var}
            ELSE IF func_ops[f][i].op = "OpFunctionCall" THEN func_ops[f][i].args
            ELSE {} : i \in DOMAIN func_ops[f] }

AccessedThrough(f) == AccessedIn(f) \cup UNION {AccessedIn(g) : g \in CalledFrom(f)}

\* C3 as stated: after extract_global_variables_from_functions every
\* non-entry function reachable from the entry point has, for each variable
\* that was declared at module scope and that it or a function it
\* transitively calls reads, writes, indexes or passes, exactly one added
\* parameter standing for that variable.
C3_Original ==
    (pc = "globals_done") =>
        \A f \in CalledFrom(entry_point) :
            \A v \in AccessedThrough(f) :
                Cardinality({k \in DOMAIN func_arguments[f] :
                               func_arguments[f][k].basevariable = v}) = 1

\* C4: after localize_global_variables no variable of the module-scope
\* list has Private or Workgroup storage; each variable that had one has
\* storage Function and is a local of the entry function; every other one
\* keeps its storage class and is still in the list.
C4_GlobalsLocalized ==
    (pc \in {"extract", "globals_done"}) =>
        /\ \A i \in DOMAIN global_variables :
              var_storage[global_variables[i]] \notin {"Private", "Workgroup"}
        /\ \A v \in DOMAIN orig_storage :
              IF orig_storage[v] \in {"Private", "Workgroup"}
              THEN /\ var_storage[v] = "Function"
                   /\ Cardinality({i \in DOMAIN entry_local_variables :
                                     entry_local_variables[i] = v}) = 1
                   /\ v \notin Range(global_variables)
              ELSE /\ var_storage[v] = orig_storage[v]
                   /\ Cardinality({i \in DOMAIN global_variables :
                                     global_variables[i] = v}) = 1
                   /\ v \notin Range(entry_local_variables)

C4_Witness ==
    /\ pc = "extract"
    /\ orig_storage = <<"Workgroup", "Input", "Private">>
    /\ global_variables = <<2>>
    /\ entry_local_variables = <<1, 3>>

----------------------------------------------------------------------------
(* The shaders of SpecBarrier: barriers, arithmetic and a write to a       *)
(* storage image in the entry function of a compute or fragment shader.    *)

MaxBarrierOps == 3       \* instructions in the entry function (SpecBarrier)

\* OpMemoryBarrier: memory scope, semantics.  OpControlBarrier: execution
\* scope, memory scope, semantics.  The operands are constant IDs.
BarrierOps ==
    { [op |-> "OpMemoryBarrier", img |-> 0, ops |-> <<2, 3>>],
      [op |-> "OpControlBarrier", img |-> 0, ops |-> <<1, 2, 3>>],
      [op |-> "OpFAdd", img |-> 0],
      [op |-> "OpImageWrite", img |-> 1] }

\* the storage image carries NonWritable until the first write to it is
\* emitted
BarrierStart ==
    /\ DriverStart
    /\ resources = << ImageRes(0) >>
    /\ decoration_flags = << {"NonWritable"} >>
    /\ pass_start_flags = decoration_flags
    /\ resource_bindings = <<>>
    /\ NoDeclarations

InitBarrier ==
    /\ BarrierStart
    /\ execution_model \in {"GLCompute", "Fragment"}
    /\ instrs \in SeqsUpTo(BarrierOps, MaxBarrierOps)
    /\ base_recompiles \in 0..1
    /\ options = [platform |-> "macOS", msl_version |-> 10200]
    /\ constants = << ScopeWorkgroup, ScopeWorkgroup,
                      MemorySemanticsWorkgroupMemoryMask
                        + MemorySemanticsAcquireReleaseMask >>

SpecBarrier == InitBarrier /\ [][Next]_vars

\* the instructions for which the statement is due: every OpMemoryBarrier,
\* and every OpControlBarrier that does not directly follow one
BarrierDue(i) ==
    \/ instrs[i].op = "OpMemoryBarrier"
    \/ /\ instrs[i].op = "OpControlBarrier"
       /\ (i = 1 \/ instrs[i - 1].op # "OpMemoryBarrier")

BarrierStatements(buf) == {k \in DOMAIN buf : buf[k].kind = "threadgroup_barrier"}

\* C12 as stated: the returned text of a compute shader has one
\* threadgroup_barrier statement for every OpMemoryBarrier and for every
\* OpControlBarrier whose immediately preceding instruction is not an
\* OpMemoryBarrier, and no other; the text of another shader has none.
C12_Original ==
    (pc = "returned") =>
        Cardinality(BarrierStatements(result[1])) =
            IF execution_model = "GLCompute"
            THEN Cardinality({i \in DOMAIN instrs : BarrierDue(i)})
            ELSE 0

----------------------------------------------------------------------------
(* The barriers of SpecBarrierArgs: one barrier with any semantics mask,   *)
(* any scopes, for any target.                                             *)

SemanticsBits ==
    { MemorySemanticsAcquireReleaseMask, MemorySemanticsUniformMemoryMask,
      MemorySemanticsSubgroupMemoryMask, MemorySemanticsWorkgroupMemoryMask,
      MemorySemanticsCrossWorkgroupMemoryMask, MemorySemanticsAtomicCounterMemoryMask,
      MemorySemanticsImageMemoryMask }

RECURSIVE SumOf(_)
SumOf(S) == IF S = {} THEN 0 ELSE LET x == CHOOSE y \in S : TRUE IN x + SumOf(S \ {x})

Scopes == {ScopeCrossDevice, ScopeDevice, ScopeWorkgroup, ScopeSubgroup, ScopeInvocation}

InitBarrierArgs ==
    /\ BarrierStart
    /\ execution_model = "GLCompute"
    /\ instrs \in {<<i>> : i \in {b \in BarrierOps : "ops" \in DOMAIN b}}
    /\ base_recompiles = 0
    /\ options \in [platform : {"iOS", "macOS"}, msl_version : {10200, 20000, 20100}]
    /\ constants \in {<<e, m, SumOf(bits)>> :
                         e \in Scopes, m \in Scopes, bits \in SUBSET SemanticsBits}

SpecBarrierArgs == InitBarrierArgs /\ [][Next]_vars

\* the barrier statement of the single instruction, once it is emitted
Emitted == buffer[Len(buffer)]

BarrierEmitted == pc \in {"body", "returned"} /\ ip = 1

\* whether a bit of a mask is set
HasBit(x, bit) == (x \div bit) % 2 = 1

\* C13: the flag of the statement is mem_device if CrossWorkgroupMemory is
\* set; otherwise mem_threadgroup if SubgroupMemory, WorkgroupMemory or
\* AtomicCounterMemory is set; otherwise mem_texture if ImageMemory is set;
\* otherwise mem_none.
C13_FlagByFirstMatch ==
    BarrierEmitted =>
        /\ Emitted.kind = "threadgroup_barrier"
        /\ Emitted.var =
              IF HasBit(constants[3], 512) THEN "mem_device"
              ELSE IF HasBit(constants[3], 128) \/ HasBit(constants[3], 256)
                        \/ HasBit(constants[3], 1024)
              THEN "mem_threadgroup"
              ELSE IF HasBit(constants[3], 2048) THEN "mem_texture"
              ELSE "mem_none"

\* all four flags at once: image and atomic-counter memory without
\* cross-workgroup memory give mem_threadgroup
C13_Witness ==
    /\ BarrierEmitted
    /\ constants[3] = 2048 + 1024 + 8
    /\ Emitted.var = "mem_threadgroup"

\* the scopes of the instruction: an OpMemoryBarrier has no execution
\* scope, which counts as Invocation
ExeScope == IF instrs[1].op = "OpControlBarrier" THEN constants[1] ELSE 4

MemScope == constants[2]

ScopeName(scope) ==
    CASE scope \in {0, 1} -> "memory_scope_device"
      [] scope = 2 -> "memory_scope_threadgroup"
      [] scope \in {3, 4} -> "memory_scope_simdgroup"

OnIosMsl2 == options.platform = "iOS" /\ options.msl_version >= 20000

\* the scope that reaches further: CrossDevice, Device, Workgroup,
\* Subgroup, Invocation from widest to narrowest
Wider(a, b) == IF a < b THEN a ELSE b

Narrower(a, b) == IF a > b THEN a ELSE b

\* C14 as stated: on iOS with MSL 2 or later the memory-scope argument is
\* that of the narrower of the execution scope and the memory scope.
C14_Original ==
    (BarrierEmitted /\ OnIosMsl2) =>
        Emitted.index = ScopeName(Narrower(ExeScope, MemScope))

\* C14: on iOS with MSL 2 or later the memory-scope argument is that of
\* the wider of the execution scope and the memory scope (an
\* OpMemoryBarrier has execution scope Invocation): device for CrossDevice
\* and Device, threadgroup for Workgroup, simdgroup for Subgroup and
\* Invocation; on every other target the statement has no such argument.
C14_WiderScope ==
    BarrierEmitted =>
        Emitted.index = IF OnIosMsl2 THEN ScopeName(Wider(ExeScope, MemScope)) ELSE ""

\* a control barrier of a workgroup whose memory scope is the device
C14_Witness ==
    /\ BarrierEmitted
    /\ OnIosMsl2
    /\ instrs[1].op = "OpControlBarrier"
    /\ constants[1] = 2
    /\ constants[2] = 1
    /\ Emitted.index = "memory_scope_device"

----------------------------------------------------------------------------
(* The shaders of SpecEmit: modules with specialization constants, struct  *)
(* types, helper functions and row-major matrices.                         *)

MaxEmitOps == 2          \* instructions in the entry function (SpecEmit)

Type(self, basetype, pointer, block, storage) ==
    [self |-> self, basetype |-> basetype, is_array |-> FALSE, pointer |-> pointer,
     block |-> block, storage |-> storage]

\* a plain struct, a pointer to it, a buffer block with two pointer types,
\* an interface block and a scalar, in ID order
TypeTable ==
    << Type(30, "Struct", FALSE, FALSE, "Generic"),
       Type(30, "Struct", TRUE, FALSE, "Function"),
       Type(31, "Struct", TRUE, TRUE, "Uniform"),
       Type(31, "Struct", TRUE, TRUE, "StorageBuffer"),
       Type(32, "Struct", TRUE, TRUE, "Input"),
       Type(33, "Float", FALSE, FALSE, "Generic") >>

TypeChoices == { {}, {1}, {1, 2}, {3}, {3, 4}, {1, 3, 4, 5, 6}, {5, 6} }

\* the types of the table at the chosen positions
TypesOf(chosen) ==
    LET idx == SelectSeq([i \in DOMAIN TypeTable |-> i], LAMBDA i : i \in chosen)
    IN  [k \in DOMAIN idx |-> TypeTable[idx[k]]]

SpecConst(id, is_scalar) == [id |-> id, scalar |-> is_scalar]

\* (specialization constants, workgroup_size_id)
SpecConstChoices ==
    { << <<>>, 0 >>,
      << <<SpecConst(20, TRUE)>>, 0 >>,
      << <<SpecConst(20, TRUE), SpecConst(21, FALSE)>>, 0 >>,
      << <<SpecConst(20, TRUE), SpecConst(22, FALSE)>>, 22 >> }

EmitOps ==
    { [op |-> "OpFAdd", img |-> 0],
      [op |-> "OpLoad", img |-> 0, row_major |-> <<2, 3>>],
      [op |-> "OpLoad", img |-> 0, row_major |-> <<3, 3>>],
      [op |-> "OpLoad", img |-> 0, row_major |-> <<4, 2>>] }

\* preprocess_op_codes: the helpers the opcodes need, the pragma for them
\* and the header line and pragma for atomics
InitEmit ==
    /\ pc = "loop"
    /\ pass_count = 0
    /\ force_recompile = FALSE
    /\ buffer = <<>>
    /\ result = <<>>
    /\ diagnostic = ""
    /\ ip = 0
    /\ next_metal_resource_index = ZeroIndex
    /\ id_bound = 1
    /\ previous_instruction_opcode = "OpNop"
    /\ execution_model = "GLCompute"
    /\ resources = << ImageRes(0) >>
    /\ decoration_flags = << {} >>
    /\ pass_start_flags = decoration_flags
    /\ resource_bindings = <<>>
    /\ options = [platform |-> "macOS", msl_version |-> 10200]
    /\ constants = <<>>
    /\ instrs \in SeqsUpTo(EmitOps, MaxEmitOps)
    /\ base_recompiles \in 0..2
    /\ spv_function_implementations \in
           { {}, {"SPVFuncImplMod"}, {"SPVFuncImplMod", "SPVFuncImplInverse2x2"} }
    /\ \E uses_atomics \in BOOLEAN :
          /\ header_lines = IF uses_atomics THEN {HeaderOrder[1]} ELSE {}
          /\ pragma_lines = (IF uses_atomics THEN {PragmaOrder[2]} ELSE {})
                              \cup (IF spv_function_implementations # {}
                                    THEN {PragmaOrder[1]} ELSE {})
    /\ \E sc \in SpecConstChoices : spec_consts = sc[1] /\ workgroup_size_id = sc[2]
    /\ \E chosen \in TypeChoices : struct_types = TypesOf(chosen)
    \* the output interface block of the shader
    /\ iface_vars = <<>>
    /\ vtx_attrs_by_location = <<>>
    /\ stage_in_var_id = 0
    /\ stage_out_var_id = 9
    /\ stage_uniforms_var_id = 0
    /\ ib_types = [s \in IfaceStorages |->
                     IF s = "Output"
                     THEN [member_types |-> << MemberType(<<1, 0>>, "vec") >>,
                           members |-> << MemberMeta("", TRUE, 0, "none", 0, 0) >>]
                     ELSE EmptyStruct]
    /\ ib_added = <<>>
    /\ non_stage_in_input_var_ids = <<>>
    /\ nsi_types = <<>>
    /\ needs_vertex_idx_arg = FALSE
    /\ needs_instance_idx_arg = FALSE
    /\ func_blocks = <<>>
    /\ GlobalsIdle
    /\ AlignIdle
    /\ PipelineIdle

SpecEmit == InitEmit /\ [][Next]_vars

\* a pass has emitted its declarations
InPass == pc \in {"prototype", "body", "returned"}

Occurrences(buf, line) == Cardinality({k \in DOMAIN buf : buf[k].kind = line})

\* C15: whatever the number of passes, the text of every pass, and so the
\* returned text, contains `#include <metal_stdlib>` exactly once and
\* `using namespace metal;` exactly once.
C15_HeaderOnce ==
    /\ InPass =>
          /\ Occurrences(buffer, "#include <metal_stdlib>") = 1
          /\ Occurrences(buffer, "using namespace metal;") = 1
    /\ (pc = "returned") =>
          /\ Occurrences(result[1], "#include <metal_stdlib>") = 1
          /\ Occurrences(result[1], "using namespace metal;") = 1

\* the text of a third pass is returned
C15_Witness ==
    /\ pc = "returned"
    /\ pass_count = 3
    /\ Occurrences(result[1], "#include <metal_stdlib>") = 1

IsHeader(t) ==
    \/ t.kind \in {"#include <metal_stdlib>", "#include <simd/simd.h>",
                    "using namespace metal;"}
    \/ t.kind \in Range(PragmaOrder) \cup Range(HeaderOrder)

IsStruct(t) == t.kind = "struct"

IsSpecConstant(t) == t.kind \in {"function_constant", "constant"}

IsHelper(t) == t.kind = "helper"

\* the entry function: its declaration and everything after it
InEntryFunction(buf, k) == \E j \in 1..k : buf[j].kind = "function"

AllBefore(buf, P(_), Q(_)) ==
    \A i, j \in DOMAIN buf : (P(buf[i]) /\ Q(buf[j])) => i < j

Rank(t) ==
    IF IsHeader(t) THEN 0
    ELSE IF IsSpecConstant(t) THEN 1
    ELSE IF IsStruct(t) THEN 2
    ELSE IF IsHelper(t) THEN 3
    ELSE 4

HelperEmitted(buf, spv_func) == \E k \in DOMAIN buf : buf[k] = Tok("helper", spv_func, 0)

\* C20: no step of the passes removes a helper from the registry, and the
\* declarations of every pass contain the definition of every helper that
\* is registered when the pass begins, so also of every helper registered
\* by the end of an earlier pass.
C20_RegistryGrows ==
    [][ /\ spv_function_implementations \subseteq spv_function_implementations'
        /\ (pc = "loop" /\ pc' = "prototype") =>
              \A f \in spv_function_implementations : HelperEmitted(buffer', f) ]_vars

\* a second pass that defines a helper of the pre-scan and two that the
\* first pass registered
C20_Witness ==
    /\ pc = "prototype"
    /\ pass_count = 1
    /\ spv_function_implementations =
          {"SPVFuncImplMod", "SPVFuncImplRowMajor2x3", "SPVFuncImplRowMajor4x2"}
    /\ \A f \in spv_function_implementations : HelperEmitted(buffer, f)

----------------------------------------------------------------------------
(* The entry function's blocks under add_interface_block.                  *)

MaxBlocks == 2           \* basic blocks of the entry function

\* SPIRBlock terminators
Terminators == {"Return", "Direct", "Select", "Kill"}

\* shaders for the return wiring: with and without an output interface,
\* with a matrix output that is rejected, with an input only
ReturnShaders ==
    { << Plain("Output", "vec", "none", TRUE, 0) >>,
      << Plain("Input", "vec", "none", TRUE, 0), Plain("Output", "vec", "none", TRUE, 1) >>,
      << Plain("Output", "vec", "inactive", FALSE, 0) >>,
      << Plain("Output", "mat", "none", TRUE, 0) >>,
      << Plain("Input", "vec", "none", TRUE, 0) >>,
      << [Plain("Output", "vec", "none", TRUE, 0) EXCEPT !.qualifies = FALSE],
         Plain("UniformConstant", "vec", "none", TRUE, 0) >> }

\* the blocks of a second function, which returns a value of its own (9)
CalleeBlocks ==
    { << Blk("Return", 9) >>,
      << Blk("Direct", 0), Blk("Return", 9) >>,
      << Blk("Select", 0), Blk("Return", 0), Blk("Return", 9) >> }

InitReturn ==
    /\ iface_vars \in ReturnShaders
    /\ vtx_attrs_by_location = [l \in 0..1 |-> NoAttr]
    /\ \E n \in 1..MaxBlocks :
          func_blocks \in
              { <<entry, callee>> :
                  entry \in [1..n -> {Blk(t, 0) : t \in Terminators}],
                  callee \in CalleeBlocks }
    /\ IfaceStart

SpecReturn == InitReturn /\ [][NextIface]_vars

\* C11: the step that synthesizes the Output block adds its variable to the
\* entry function's locals and sets return_value of exactly the entry
\* function's Return blocks to it; blocks with other terminators and blocks
\* of other functions keep their return_value, and no other step touches
\* the blocks or the locals.
C11_ReturnWiring ==
    [][ IF pc = "iface_out" /\ QualifyingVars("Output") # {}
        THEN /\ entry_local_variables' = Append(entry_local_variables, id_bound + 1)
             /\ (pc' # "thrown") => (stage_out_var_id' = id_bound + 1)
             /\ DOMAIN func_blocks' = DOMAIN func_blocks
             /\ \A f \in DOMAIN func_blocks :
                   /\ DOMAIN func_blocks'[f] = DOMAIN func_blocks[f]
                   /\ \A b \in DOMAIN func_blocks[f] :
                         /\ func_blocks'[f][b].terminator = func_blocks[f][b].terminator
                         /\ func_blocks'[f][b].return_value =
                               IF f = entry_point /\ func_blocks[f][b].terminator = "Return"
                               THEN id_bound + 1
                               ELSE func_blocks[f][b].return_value
        ELSE UNCHANGED <<entry_local_variables, func_blocks>> ]_vars

C11_Witness ==
    /\ pc = "iface_done"
    /\ stage_out_var_id # 0
    /\ entry_local_variables = <<stage_out_var_id>>
    /\ func_blocks[entry_point] = << Blk("Select", 0), Blk("Return", stage_out_var_id) >>
    /\ func_blocks[2] = << Blk("Direct", 0), Blk("Return", 9) >>

----------------------------------------------------------------------------
(* Struct alignment: align_struct and the layout calculator.               *)

NumType(vecsize, columns, major) ==
    [basetype |-> "Float", width |-> 32, vecsize |-> vecsize, columns |-> columns,
     array |-> <<>>, array_stride |-> 0, struct_size |-> 0, major |-> major]

\* a struct member type; struct_size is what get_declared_struct_size gives
StructType(struct_size) ==
    [NumType(1, 1, "none") EXCEPT !.basetype = "Struct", !.struct_size = struct_size]

\* vec4[n] with the given ArrayStride
ArrayType(n, array_stride) ==
    [NumType(4, 1, "none") EXCEPT !.array = <<n>>, !.array_stride = array_stride]

AlignMeta(offset) == [builtin |-> FALSE, offset |-> offset, packed |-> FALSE]

\* x & ~m on unsigned integers
RECURSIVE AndNot(_, _)
AndNot(x, m) ==
    IF x = 0 THEN 0
    ELSE (x % 2) * (1 - (m % 2)) + 2 * AndNot(x \div 2, m \div 2)

\* align_struct lines 748-749 and 771-772
AlignedTo(curr_offset, alignment) ==
    AndNot(curr_offset + (alignment - 1), alignment - 1)

\* is_member_packable (index counts from 1 here)
is_member_packable(ib_type, index) ==
    ib_type.member_types[index].vecsize = 3 /\ ib_type.member_types[index].columns = 1

\* member_is_packed_type: the member carries DecorationCPacked
member_is_packed_type(struct_type, index) == struct_type.members[index].packed

\* get_declared_struct_member_size
get_declared_struct_member_size(struct_type, index) ==
    LET type == struct_type.member_types[index]
        component_size == type.width \div 8
        vecsize == IF type.columns = 1
                   THEN IF ~struct_type.members[index].packed /\ type.vecsize = 3
                        THEN 4 ELSE type.vecsize
                   ELSE IF type.major = "ColMajor" /\ type.vecsize = 3
                        THEN 4 ELSE type.vecsize
        columns == IF /\ type.columns # 1
                      /\ type.major = "RowMajor"
                      /\ type.columns = 3
                   THEN 4 ELSE type.columns
    IN  IF type.array # <<>>
        THEN type.array_stride * (IF type.array[Len(type.array)] > 1
                                  THEN type.array[Len(type.array)] ELSE 1)
        ELSE IF type.basetype = "Struct" THEN type.struct_size
        ELSE vecsize * columns * component_size

\* get_declared_struct_member_alignment
get_declared_struct_member_alignment(struct_type, index) ==
    LET type == struct_type.member_types[index]
        array_size == IF type.array = <<>> THEN 1
                      ELSE IF type.array[Len(type.array)] > 1
                           THEN type.array[Len(type.array)] ELSE 1
    IN  IF type.basetype = "Struct" THEN 16
        ELSE IF member_is_packed_type(struct_type, index) THEN type.width \div 8
        ELSE get_declared_struct_member_size(struct_type, index)
                \div (type.columns * array_size)

\* align_struct lines 744-762: the packing loop from member mbr_idx on
RECURSIVE PackingPass(_, _, _)
PackingPass(ib_type, mbr_idx, offset_before) ==
    IF mbr_idx > Len(ib_type.member_types) THEN ib_type
    ELSE
      LET curr_offset == AlignedTo(offset_before,
                                   get_declared_struct_member_alignment(ib_type, mbr_idx))
          mbr_offset  == ib_type.members[mbr_idx].offset
          packed      == IF curr_offset > mbr_offset /\ is_member_packable(ib_type, mbr_idx - 1)
                         THEN [ib_type EXCEPT !.members[mbr_idx - 1].packed = TRUE]
                         ELSE ib_type
      IN  PackingPass(packed, mbr_idx + 1,
                      mbr_offset + get_declared_struct_member_size(packed, mbr_idx))

\* align_struct lines 767-787: the padding loop from member mbr_idx on
RECURSIVE PaddingPass(_, _, _, _)
PaddingPass(ib_type, mbr_idx, offset_before, padding) ==
    IF mbr_idx > Len(ib_type.member_types) THEN padding
    ELSE
      LET curr_offset == AlignedTo(offset_before,
                                   get_declared_struct_member_alignment(ib_type, mbr_idx))
          mbr_offset  == ib_type.members[mbr_idx].offset
      IN  PaddingPass(ib_type, mbr_idx + 1,
                      mbr_offset + get_declared_struct_member_size(ib_type, mbr_idx),
                      IF mbr_offset > curr_offset
                      THEN [padding EXCEPT ![mbr_idx] = mbr_offset - curr_offset]
                      ELSE padding)

\* align_struct, called by emit_resources in each pass
AlignStruct ==
    /\ pc \in {"align", "aligned"}
    /\ \E mbr_idxs \in SortedOrders(DOMAIN align_type.members, align_type.members,
                                    "Offset") :
          LET sorted == Reordered(align_type, mbr_idxs)
              packed == PackingPass(sorted, 1, 0)
          IN  /\ align_type' = packed
              /\ struct_member_padding' = PaddingPass(packed, 1, 0, struct_member_padding)
    /\ pc' = "aligned"
    /\ UNCHANGED <<result, diagnostic, execution_model, id_bound, driverVars, ifaceVars,
                   globalsVars, frameVars, locale>>

NextAlign == AlignStruct

----------------------------------------------------------------------------
(* The structs of SpecAlign.                                               *)

MaxMembers == 3          \* members of the struct

\* float, vec2, vec3, vec4, mat3, mat2, a struct of one vec4, vec4[2]: the
\* types for which the calculator's size and alignment are those of MSL
MemberTypes ==
    { NumType(1, 1, "none"), NumType(2, 1, "none"), NumType(3, 1, "none"),
      NumType(4, 1, "none"), NumType(3, 3, "ColMajor"), NumType(2, 2, "ColMajor"),
      StructType(16), ArrayType(2, 16) }

\* Offset decorations: multiples of the component size
OffsetChoices == {0, 4, 8, 12, 16, 28, 32, 48}

\* the bytes a member occupies at its Offset: a three-component vector
\* occupies three components
Extent(type) ==
    IF type.array # <<>> THEN type.array_stride * type.array[Len(type.array)]
    ELSE IF type.basetype = "Struct" THEN type.struct_size
    ELSE IF type.columns = 1 THEN type.vecsize * (type.width \div 8)
    ELSE type.columns * 16

\* the members of a struct do not overlap
NoOverlap(struct) ==
    \A i, j \in DOMAIN struct.members :
        (i # j) =>
            \/ struct.members[i].offset + Extent(struct.member_types[i])
                  <= struct.members[j].offset
            \/ struct.members[j].offset + Extent(struct.member_types[j])
                  <= struct.members[i].offset

InitAlign ==
    /\ pc = "align"
    /\ result = <<>>
    /\ diagnostic = ""
    /\ execution_model = "GLCompute"
    /\ id_bound = 1
    /\ DriverIdle
    /\ IfaceIdle
    /\ GlobalsIdle
    /\ PipelineIdle
    /\ \E n \in 1..MaxMembers :
          /\ align_type \in
                 { [member_types |-> [i \in 1..n |-> ms[i][1]],
                    members |-> [i \in 1..n |-> AlignMeta(ms[i][2])]] :
                   ms \in [1..n -> MemberTypes \X OffsetChoices] }
          /\ struct_member_padding = [i \in 1..n |-> 0]
    /\ NoOverlap(align_type)
    /\ \E i \in DOMAIN align_type.members : align_type.members[i].offset = 0

SpecAlign == InitAlign /\ [][NextAlign]_vars

----------------------------------------------------------------------------
(* Claims about struct alignment.                                          *)

RoundUp(x, alignment) == ((x + alignment - 1) \div alignment) * alignment

\* where the members land when they are emitted in order, each after its
\* padding bytes, with the sizes and alignments of the layout calculator
RECURSIVE EmittedEnd(_)
EmittedOffset(i) ==
    RoundUp((IF i = 1 THEN 0 ELSE EmittedEnd(i - 1)) + struct_member_padding[i],
            get_declared_struct_member_alignment(align_type, i))

EmittedEnd(i) == EmittedOffset(i) + get_declared_struct_member_size(align_type, i)

\* C5 as stated: after align_struct, emitting the members in order with the
\* chosen packed flags and the recorded padding before each member places
\* every member at exactly its SPIR-V Offset decoration.
C5_Original ==
    (pc = "aligned") =>
        \A i \in DOMAIN align_type.members :
            EmittedOffset(i) = align_type.members[i].offset
----------------------------------------------------------------------------
(* Names: replace_illegal_names.                                           *)

keywords == {"kernel", "bias"}

illegal_func_names == {"main", "saturate"}

\* if (illegal.find(alias) != end(illegal)) alias += "0"
Renamed(alias, illegal) == IF alias \in illegal THEN alias \o "0" ELSE alias

\* replace_illegal_names lines 2895-2928: the loop over ids
RenamedId(m) ==
    CASE m.type = "Variable" -> [m EXCEPT !.alias = Renamed(@, keywords)]
      [] m.type = "Function" -> [m EXCEPT !.alias = Renamed(@, illegal_func_names)]
      [] m.type = "Type" ->
            [m EXCEPT !.members = [k \in DOMAIN @ |-> Renamed(@[k], keywords)]]
      [] OTHER -> m

\* replace_illegal_names
ReplaceIllegalNames ==
    /\ pc = "names"
    /\ LET eps == [e \in DOMAIN entry_points |->
                     [entry_points[e] EXCEPT !.name = Renamed(@, illegal_func_names)]]
       IN  /\ entry_points' = eps
           \* lines 2930-2940: the alias of an entry function is its entry-point name
           /\ meta' = [i \in DOMAIN meta |->
                         IF \E e \in DOMAIN eps : eps[e].self = i
                         THEN [RenamedId(meta[i]) EXCEPT
                                 !.alias = eps[CHOOSE e \in DOMAIN eps : eps[e].self = i].name]
                         ELSE RenamedId(meta[i])]
    /\ pc' = "names_done"
    /\ UNCHANGED <<result, diagnostic, execution_model, id_bound, driverVars, ifaceVars,
                   globalsVars, alignVars, orig_names, old_locale, compile_calls,
                   locale_before, first_run, first_call, locale>>

----------------------------------------------------------------------------
(* The modules of SpecNames: an entry function and MaxIds other IDs, with  *)
(* names that are keywords of MSL, names of MSL functions, and others.     *)

MaxIds == 2              \* IDs besides the entry function

Names == {"kernel", "bias", "main", "saturate", "foo"}

Meta(type, alias, members) == [type |-> type, alias |-> alias, members |-> members]

IdKinds ==
    {Meta(t, a, <<>>) : t \in {"Variable", "Function"}, a \in Names}
      \cup {Meta("Type", "S", ms) : ms \in SeqsUpTo(Names, 2) \ {<<>>}}
      \cup {Meta("Constant", a, <<>>) : a \in {"kernel", "main"}}

InitNames ==
    /\ pc = "names"
    /\ result = <<>>
    /\ diagnostic = ""
    /\ execution_model = "Fragment"
    /\ id_bound = MaxIds + 2
    /\ DriverIdle
    /\ IfaceIdle
    /\ GlobalsIdle
    /\ AlignIdle
    /\ locale = "C"
    /\ old_locale = "C"
    /\ compile_calls = 1
    /\ locale_before = "C"
    /\ first_run = <<>>
    /\ first_call = <<>>
    /\ \E name \in Names :
          /\ entry_points = << [self |-> entry_point, name |-> name] >>
          /\ meta \in {<<Meta("Function", name, <<>>)>> \o rest :
                          rest \in [1..MaxIds -> IdKinds]}
    /\ orig_names = [meta |-> meta, entry_points |-> entry_points]

SpecNames == InitNames /\ [][ReplaceIllegalNames]_vars

\* what the claim says of an identifier
SuffixedIfIllegal(name) ==
    IF name \in {"kernel", "bias", "main", "saturate"} THEN name \o "0" ELSE name

\* C19 as stated: after replace_illegal_names every variable, function,
\* struct-member and entry-point identifier that was kernel, bias, main or
\* saturate is that name followed by 0, and every other identifier is as it
\* was.
C19_Original ==
    (pc = "names_done") =>
        /\ \A i \in DOMAIN meta :
              /\ meta[i].type = orig_names.meta[i].type
              /\ meta[i].alias =
                    IF meta[i].type \in {"Variable", "Function"}
                    THEN SuffixedIfIllegal(orig_names.meta[i].alias)
                    ELSE orig_names.meta[i].alias
              /\ DOMAIN meta[i].members = DOMAIN orig_names.meta[i].members
              /\ \A k \in DOMAIN meta[i].members :
                    meta[i].members[k] = SuffixedIfIllegal(orig_names.meta[i].members[k])
        /\ \A e \in DOMAIN entry_points :
              /\ entry_points[e].self = orig_names.entry_points[e].self
              /\ entry_points[e].name = SuffixedIfIllegal(orig_names.entry_points[e].name)

\* a function named kernel keeps its name
C19_Witness ==
    /\ pc = "names_done"
    /\ \E i \in DOMAIN meta :
          /\ orig_names.meta[i] = Meta("Function", "kernel", <<>>)
          /\ meta[i].alias = "kernel"

----------------------------------------------------------------------------
(* The whole of compile(), and a caller that calls it again.               *)

MaxCalls == 2            \* compile() calls on one instance

Locales == {"C", "de_DE.UTF-8", "tr_TR.UTF-8"}

\* compile() lines 55-75: the constructor of classic_locale saves the
\* locale of the process and installs the classic one; the back-end flags
\* that follow are constants of the model
EnterCompile ==
    /\ pc = "start"
    /\ old_locale' = locale
    /\ locale' = "C"
    /\ pc' = "names"
    /\ UNCHANGED <<result, diagnostic, execution_model, id_bound, driverVars, ifaceVars,
                   globalsVars, alignVars, meta, entry_points, orig_names,
                   compile_calls, locale_before, first_run, first_call>>

\* traverse_all_reachable_opcodes: the functions reached from those in todo
RECURSIVE ReachableFunctions(_, _)
ReachableFunctions(todo, seen) ==
    IF todo = {} THEN seen
    ELSE LET f == Min(todo)
             callees == {func_ops[f][i].callee :
                            i \in {j \in DOMAIN func_ops[f] :
                                      func_ops[f][j].op = "OpFunctionCall"}}
         IN  ReachableFunctions((todo \cup callees) \ (seen \cup {f}), seen \cup {f})

\* the opcodes OpCodePreprocessor::handle is given
ReachableOpcodes ==
    UNION {{func_ops[f][i].op : i \in DOMAIN func_ops[f]} :
              f \in ReachableFunctions({entry_point}, {})}

\* traverse_all_reachable_opcodes: the instructions handle() is given, in
\* order, the instructions of a called function after the call (no function
\* of the modules that are pre-scanned calls itself)
RECURSIVE Traverse(_, _)
Traverse(func, i) ==
    IF i > Len(func_ops[func]) THEN <<>>
    ELSE LET ins == func_ops[func][i] IN
         <<ins>> \o (IF ins.op = "OpFunctionCall" THEN Traverse(ins.callee, 1) ELSE <<>>)
               \o Traverse(func, i + 1)

\* OpCodePreprocessor::handle lines 3446-3477: result_types when the k-th
\* instruction is handled, the results of the instructions before it
ResultTypes(seq, k) ==
    {seq[j].result : j \in {i \in 1..(k - 1) : "result" \in DOMAIN seq[i]}}

\* get_spv_func_impl ("" is SPVFuncImplNone): a store asks for the array
\* copy when its right-hand side is not a constant and result_types holds
\* an array type for it
get_spv_func_impl(opcode, args, result_types) ==
    CASE opcode = "OpFMod" -> "SPVFuncImplMod"
      [] opcode = "OpStore" ->
            IF /\ "rhs" \in DOMAIN args
               /\ args.rhs.type # "TypeConstant"
               /\ \E r \in result_types : r.id = args.rhs.id /\ r.array
            THEN "SPVFuncImplArrayCopy" ELSE ""
      [] opcode = "OpExtInst" ->
            ( CASE args.ext = "Radians"  -> "SPVFuncImplRadians"
                [] args.ext = "Degrees"  -> "SPVFuncImplDegrees"
                [] args.ext = "FindILsb" -> "SPVFuncImplFindILsb"
                [] args.ext = "FindSMsb" -> "SPVFuncImplFindSMsb"
                [] args.ext = "FindUMsb" -> "SPVFuncImplFindUMsb"
                [] args.ext = "MatrixInverse" ->
                      ( CASE args.columns = 2 -> "SPVFuncImplInverse2x2"
                          [] args.columns = 3 -> "SPVFuncImplInverse3x3"
                          [] args.columns = 4 -> "SPVFuncImplInverse4x4"
                          [] OTHER            -> "" )
                [] OTHER -> "" )
      [] OTHER -> ""

\* OpCodePreprocessor::handle, the atomic opcodes of lines 3428-3444
AtomicOpcodes ==
    {"OpAtomicExchange", "OpAtomicCompareExchange", "OpAtomicCompareExchangeWeak",
     "OpAtomicLoad", "OpAtomicIIncrement", "OpAtomicIDecrement", "OpAtomicIAdd",
     "OpAtomicISub", "OpAtomicSMin", "OpAtomicUMin", "OpAtomicSMax", "OpAtomicUMax",
     "OpAtomicAnd", "OpAtomicOr", "OpAtomicXor"}

\* compile() lines 78-88: the two maps are cleared, then preprocess_op_codes
\* clears the helper registry and fills it, the pragma lines and the header
\* lines from the reachable opcodes
PreprocessOpCodes ==
    /\ pc = "names_done"
    /\ non_stage_in_input_var_ids' = [b \in MslBuffers |-> 0]
    /\ nsi_types' = [b \in MslBuffers |-> EmptyStruct]
    /\ struct_member_padding' = <<>>
    /\ LET seq == Traverse(entry_point, 1)
           impls == {get_spv_func_impl(seq[k].op, seq[k], ResultTypes(seq, k)) :
                        k \in DOMAIN seq} \ {""}
           suppress_missing_prototypes ==
               impls # {} \/ "OpFunctionCall" \in ReachableOpcodes
           uses_atomics == ReachableOpcodes \cap AtomicOpcodes # {}
       IN  /\ spv_function_implementations' = impls
           /\ pragma_lines' =
                 pragma_lines
                   \cup (IF suppress_missing_prototypes THEN {PragmaOrder[1]} ELSE {})
                   \cup (IF uses_atomics THEN {PragmaOrder[2]} ELSE {})
           /\ header_lines' =
                 header_lines \cup (IF uses_atomics THEN {HeaderOrder[1]} ELSE {})
    /\ pc' = "iface_in"
    /\ UNCHANGED <<result, diagnostic, execution_model, id_bound, pass_count,
                   force_recompile, buffer, resources, decoration_flags, instrs, ip,
                   base_recompiles, resource_bindings, next_metal_resource_index,
                   pass_start_flags, barrierVars, spec_consts, workgroup_size_id,
                   struct_types, iface_vars, vtx_attrs_by_location, stage_in_var_id,
                   stage_out_var_id, stage_uniforms_var_id, ib_types, ib_added,
                   needs_vertex_idx_arg, needs_instance_idx_arg, func_blocks,
                   globalsVars, align_type, frameVars, locale>>

\* the parameter lists of the functions, by the variable each parameter
\* stands for
ParameterLists ==
    [f \in DOMAIN func_arguments |->
        [k \in DOMAIN func_arguments[f] |-> func_arguments[f][k].basevariable]]

\* what the emission loop starts from
EmissionStart ==
    [interface_blocks |-> ib_types,
     parameter_lists  |-> ParameterLists,
     helpers          |-> spv_function_implementations,
     block_ids        |-> [Input |-> stage_in_var_id, Output |-> stage_out_var_id,
                           UniformConstant |-> stage_uniforms_var_id]]

\* compile() lines 99-107: mark_packable_structs and the declaration of
\* pass_count (the model has no specialized array lengths)
StartPasses ==
    /\ pc = "globals_done"
    /\ pass_count' = 0
    /\ first_call' = IF compile_calls = 1 THEN <<EmissionStart>> ELSE first_call
    /\ pc' = "loop"
    /\ UNCHANGED <<result, diagnostic, execution_model, id_bound, force_recompile,
                   buffer, resources, decoration_flags, instrs, ip, base_recompiles,
                   resource_bindings, next_metal_resource_index, pass_start_flags,
                   barrierVars, emitVars, ifaceVars, globalsVars, alignVars, meta,
                   entry_points, orig_names, old_locale, compile_calls,
                   locale_before, first_run, locale>>

\* the caller: compile() has returned and is called again, with the same
\* configuration and the same lists (lines 132-156 store them again), under
\* whatever locale the process has by then
CompileAgain ==
    /\ pc = "returned"
    /\ compile_calls < MaxCalls
    /\ compile_calls' = compile_calls + 1
    /\ first_call' = IF compile_calls = 1 THEN Append(first_call, result[1])
                     ELSE first_call
    /\ result' = <<>>
    /\ \E l \in Locales : locale' = l /\ locale_before' = l
    /\ pc' = "start"
    /\ UNCHANGED <<diagnostic, execution_model, id_bound, driverVars, ifaceVars,
                   globalsVars, alignVars, meta, entry_points, orig_names, old_locale,
                   first_run>>

NextCompile ==
    \/ EnterCompile
    \/ ReplaceIllegalNames
    \/ PreprocessOpCodes
    \/ AddInputBlock
    \/ AddOutputBlock
    \/ AddUniformBlock
    \/ LocalizeGlobalVariables
    \/ ExtractGlobalVariablesFromFunctions
    \/ StartPasses
    \/ BeginPass
    \/ EmitPrototype
    \/ EmitInstruction
    \/ EndPass
    \/ CompileAgain

----------------------------------------------------------------------------
(* The modules of SpecCompile: an entry function and a second function,    *)
(* the interface variables first, then a uniform buffer and a private      *)
(* variable.                                                               *)

\* with an output, with an input and an output, with a matrix output that
\* is rejected, with an input only
CompileShaders ==
    { << Plain("Output", "vec", "none", TRUE, 0) >>,
      << Plain("Input", "vec", "none", TRUE, 0), Plain("Output", "vec", "none", TRUE, 1) >>,
      << Plain("Output", "mat", "none", TRUE, 0) >>,
      << Plain("Input", "vec", "none", TRUE, 0) >> }

\* the bodies of the entry function, which may call function 2
CompileEntryOps ==
    { << Ins("OpFAdd", 0, 0, {}) >>,
      << Ins("OpFunctionCall", 0, 2, {}) >>,
      << Ins("OpFMod", 0, 0, {}), Ins("OpFunctionCall", 0, 2, {}) >>,
      << Ins("OpAtomicIAdd", 0, 0, {}) >>,
      << Ins("OpAtomicStore", 0, 0, {}) >> }

\* the bodies of function 2, given the IDs of the uniform buffer and of the
\* private variable
CompileCalleeOps(uniform, private) ==
    { << Ins("OpFAdd", 0, 0, {}) >>,
      << Ins("OpAtomicExchange", 0, 0, {}) >>,
      << Ins("OpLoad", uniform, 0, {}) >>,
      << Ins("OpAccessChain", uniform, 0, {}), Ins("OpStore", private, 0, {}) >> }

InitCompile ==
    /\ pc = "start"
    /\ result = <<>>
    /\ diagnostic = ""
    /\ execution_model \in {"Vertex", "Fragment"}
    \* the locale and the calls
    /\ locale \in Locales
    /\ locale_before = locale
    /\ first_run = <<>>
    /\ old_locale = ""
    /\ compile_calls = 1
    /\ first_call = <<>>
    \* the names
    /\ entry_points = << [self |-> entry_point, name |-> "main"] >>
    /\ \E a \in {"bias", "colour"} :
          meta = << Meta("Function", "main", <<>>), Meta("Variable", a, <<>>) >>
    /\ orig_names = [meta |-> meta, entry_points |-> entry_points]
    \* the interface
    /\ iface_vars \in CompileShaders
    /\ vtx_attrs_by_location = [l \in 0..1 |-> NoAttr]
    /\ func_blocks = << <<Blk("Return", 0)>>, <<Blk("Return", 9)>> >>
    /\ stage_in_var_id = 0
    /\ stage_out_var_id = 0
    /\ stage_uniforms_var_id = 0
    /\ ib_types = [s \in IfaceStorages |-> EmptyStruct]
    /\ ib_added = [s \in IfaceStorages |-> EmptyStruct]
    /\ non_stage_in_input_var_ids = [b \in MslBuffers |-> 0]
    /\ nsi_types = [b \in MslBuffers |-> EmptyStruct]
    /\ needs_vertex_idx_arg = FALSE
    /\ needs_instance_idx_arg = FALSE
    \* the variables and the functions
    /\ var_storage = [i \in DOMAIN iface_vars |-> iface_vars[i].storage]
                       \o <<"Uniform", "Private">>
    /\ orig_storage = var_storage
    /\ global_variables = [i \in 1..Len(var_storage) |-> i]
    /\ entry_local_variables = <<>>
    /\ \E entry \in CompileEntryOps :
       \E callee \in CompileCalleeOps(Len(iface_vars) + 1, Len(iface_vars) + 2) :
          func_ops = <<entry, callee>>
    /\ func_arguments = [f \in DOMAIN func_ops |-> <<>>]
    /\ function_global_vars = [f \in DOMAIN func_ops |-> {}]
    /\ id_bound = Len(var_storage) + Len(func_ops) + 1
    \* the emission loop
    /\ instrs = func_ops[entry_point]
    /\ base_recompiles \in 0..MaxPasses
    /\ pass_count = 0
    /\ force_recompile = FALSE
    /\ buffer = <<>>
    /\ ip = 0
    /\ resources = <<>>
    /\ decoration_flags = <<>>
    /\ resource_bindings = <<>>
    /\ next_metal_resource_index = ZeroIndex
    /\ pass_start_flags = <<>>
    /\ previous_instruction_opcode = "OpNop"
    /\ options = [platform |-> "macOS", msl_version |-> 10200]
    /\ constants = <<>>
    /\ NoDeclarations
    /\ AlignIdle

SpecCompile == InitCompile /\ [][NextCompile]_vars

\* the caller's view: compile() is not running
Exited == pc \in {"returned", "thrown"}

\* C18: when compile() has exited, by returning or by throwing, the locale
\* of the process is the locale that was in effect before the call.
C18_LocaleRestored == Exited => locale = locale_before

\* compile() threw the diagnostic of line 111 when the locale before the
\* call was not the classic one
C18_Witness ==
    /\ pc = "thrown"
    /\ diagnostic = "Over 3 compilation loops detected. Must be a bug!"
    /\ locale_before # "C"
    /\ locale = locale_before

\* the text of a buffer: an interface struct is printed under the name of
\* its storage class, whatever ID the call gave it
Printed(buf, block_ids) ==
    [k \in DOMAIN buf |->
        IF buf[k].kind = "struct"
             /\ \E st \in DOMAIN block_ids : block_ids[st] = buf[k].var
        THEN [buf[k] EXCEPT
                !.var = CHOOSE st \in DOMAIN block_ids : block_ids[st] = buf[k].var]
        ELSE buf[k]]

\* C17: the second call of compile() starts its emission loop from the
\* interface blocks, parameter lists and helper set of the first call, and
\* returns the text the first call returned.
C17_Original ==
    compile_calls = 2 =>
       /\ pc \in {"loop", "prototype", "body", "returned"} =>
             /\ ib_types = first_call[1].interface_blocks
             /\ ParameterLists = first_call[1].parameter_lists
       /\ pc = "loop" /\ pass_count = 0 =>
             spv_function_implementations = first_call[1].helpers
       /\ pc = "returned" =>
             Printed(result[1], EmissionStart.block_ids)
                = Printed(first_call[2], first_call[1].block_ids)

\* the second call has returned a text that is not the text of the first
C17_Witness ==
    /\ compile_calls = 2
    /\ pc = "returned"
    /\ Printed(result[1], EmissionStart.block_ids)
          # Printed(first_call[2], first_call[1].block_ids)

----------------------------------------------------------------------------
(* The modules of SpecPass: two storage images and row-major matrices,     *)
(* under a generic back-end that never asks for another pass.              *)

MaxPassOps == 2          \* instructions of the entry function

PassOps ==
    {[op |-> o, img |-> v] : o \in {"OpImageRead", "OpImageWrite"}, v \in 1..2}
      \cup { [op |-> "OpFAdd", img |-> 0],
             [op |-> "OpLoad", img |-> 0, row_major |-> <<2, 3>>],
             [op |-> "OpLoad", img |-> 0, row_major |-> <<3, 3>>],
             [op |-> "OpLoad", img |-> 0, row_major |-> <<3, 2>>] }

PassFlags ==
    { << {}, {} >>,
      << {"NonReadable"}, {"NonWritable"} >>,
      << {"NonReadable", "NonWritable"}, {} >>,
      << {"NonWritable"}, {"NonReadable", "NonWritable"} >> }

\* preprocess_op_codes: the registry holds SPVFuncImplMod, with its pragma,
\* or nothing
InitPass ==
    /\ DriverStart
    /\ execution_model = "GLCompute"
    /\ resources = ImageResources
    /\ decoration_flags \in PassFlags
    /\ pass_start_flags = decoration_flags
    /\ instrs \in SeqsUpTo(PassOps, MaxPassOps)
    /\ base_recompiles = 0
    /\ resource_bindings = <<>>
    /\ options = [platform |-> "macOS", msl_version |-> 10200]
    /\ constants = <<>>
    /\ header_lines = {}
    /\ spec_consts = <<>>
    /\ workgroup_size_id = 0
    /\ struct_types = <<>>
    /\ \E uses_mod \in BOOLEAN :
          /\ spv_function_implementations =
                IF uses_mod THEN {"SPVFuncImplMod"} ELSE {}
          /\ pragma_lines = IF uses_mod THEN {PragmaOrder[1]} ELSE {}

SpecPass == InitPass /\ [][Next]_vars

\* the step that begins the second pass
SecondPassBegins == pc = "loop" /\ pc' = "prototype" /\ pass_count = 1

\* the pragma lines at the start of the first pass of a module of SpecPass
FirstPragmaLines ==
    IF "SPVFuncImplMod" \in spv_function_implementations THEN {PragmaOrder[1]} ELSE {}

\* the decorations of image v that the instructions of the entry function clear
ObservedOn(v) ==
    {Observed(instrs[i]) :
        i \in {j \in DOMAIN instrs :
                  instrs[j].op \in {"OpImageRead", "OpImageWrite"} /\ instrs[j].img = v}}

\* the entry function asks for the helper of a matrix that is not square
AsksForHelper ==
    \E i \in DOMAIN instrs :
        "row_major" \in DOMAIN instrs[i] /\ instrs[i].row_major[1] # instrs[i].row_major[2]

----------------------------------------------------------------------------
(* The global localizer, run twice on the modules of SpecGlobals.          *)

\* what a run of the global localizer leaves
LocalizerState ==
    [parameter_lists |-> func_arguments,
     storage         |-> var_storage,
     entry_locals    |-> entry_local_variables,
     bound           |-> id_bound]

\* the two passes are run once more: localize_global_variables and
\* extract_global_variables_from_functions are called again, as every
\* compile() call does (lines 96-97)
LocalizeAgain ==
    /\ pc = "globals_done"
    /\ first_run = <<>>
    /\ first_run' = <<LocalizerState>>
    /\ pc' = "localize"
    /\ UNCHANGED <<result, diagnostic, execution_model, id_bound, driverVars, ifaceVars,
                   globalsVars, alignVars, meta, entry_points, orig_names, old_locale,
                   compile_calls, locale_before, first_call, locale>>

NextRelocalize ==
    LocalizeGlobalVariables \/ ExtractGlobalVariablesFromFunctions \/ LocalizeAgain

SpecRelocalize == InitGlobals /\ [][NextRelocalize]_vars

\* the second run has ended
SecondRunDone == pc = "globals_done" /\ first_run # <<>>

\* C22: after a second run of the global localizer every function's
\* parameter list, every variable's storage class, the entry function's
\* local-variable list and the ID upper bound are as the first run left them.
C22_Original == SecondRunDone => LocalizerState = first_run[1]

\* a second run that left the storage classes and the locals of the entry
\* function as they were and the parameter lists longer
C22_Witness ==
    /\ SecondRunDone
    /\ var_storage = first_run[1].storage
    /\ entry_local_variables = first_run[1].entry_locals
    /\ \E f \in DOMAIN func_arguments :
          Len(func_arguments[f]) = 2 * Len(first_run[1].parameter_lists[f])
             /\ Len(func_arguments[f]) > 0

----------------------------------------------------------------------------
(* The member sorter on its own: a struct sorted by LocationReverse and    *)
(* then by Location.                                                       *)

MaxSorted == 3           \* members of the struct

\* a mutant: the types are moved and the meta entries are left in place
MemberSorter_sort_types_only(struct, aspect) ==
    { [Reordered(struct, mbr_idxs) EXCEPT !.members = struct.members] :
        mbr_idxs \in SortedOrders(DOMAIN struct.members, struct.members, aspect) }

\* MemberSorter::sort: the structs std::sort may leave
MemberSorter_sort(struct, aspect) ==
    { Reordered(struct, mbr_idxs) :
        mbr_idxs \in SortedOrders(DOMAIN struct.members, struct.members, aspect) }

\* MemberSorter(type, meta, aspect).sort() on the Input struct
SortMembers(at, aspect, then) ==
    /\ pc = at
    /\ \E sorted \in MemberSorter_sort(ib_types["Input"], aspect) :
          ib_types' = [ib_types EXCEPT !["Input"] = sorted]
    /\ pc' = then
    /\ UNCHANGED <<result, diagnostic, execution_model, id_bound, driverVars,
                   iface_vars, vtx_attrs_by_location, stage_in_var_id,
                   stage_out_var_id, stage_uniforms_var_id, ib_added,
                   non_stage_in_input_var_ids, nsi_types, needs_vertex_idx_arg,
                   needs_instance_idx_arg, func_blocks, globalsVars, alignVars,
                   frameVars, locale>>

SortLocationReverse == SortMembers("sort_reverse", "LocationReverse", "sort_forward")

SortLocation == SortMembers("sort_forward", "Location", "sorted")

NextSort == SortLocationReverse \/ SortLocation

\* the structs of SpecSort: up to MaxSorted members, built-in or not, with
\* pairwise distinct locations; member i has type i and alias i
SortedStructs ==
    UNION { { [member_types |-> [i \in 1..n |-> MemberType(<<i, 0>>, "vec")],
               members |-> [i \in 1..n |->
                              MemberMeta(<<i, 0>>, TRUE, locn[i], blt[i], 0, 0)]] :
                locn \in {l \in [1..n -> 0..MaxSorted] :
                             \A i, j \in 1..n : i # j => l[i] # l[j]},
                blt \in [1..n -> BOOLEAN] } :
            n \in 0..MaxSorted }

InitSort ==
    /\ pc = "sort_reverse"
    /\ result = <<>>
    /\ diagnostic = ""
    /\ execution_model = "Vertex"
    /\ id_bound = 1
    /\ DriverIdle
    /\ GlobalsIdle
    /\ AlignIdle
    /\ PipelineIdle
    /\ iface_vars = <<>>
    /\ vtx_attrs_by_location = <<>>
    /\ stage_in_var_id = 0
    /\ stage_out_var_id = 0
    /\ stage_uniforms_var_id = 0
    /\ \E struct \in SortedStructs :
          /\ ib_types = [s \in IfaceStorages |-> IF s = "Input" THEN struct ELSE EmptyStruct]
          /\ ib_added = ib_types
    /\ non_stage_in_input_var_ids = <<>>
    /\ nsi_types = <<>>
    /\ needs_vertex_idx_arg = FALSE
    /\ needs_instance_idx_arg = FALSE
    /\ func_blocks = <<>>

SpecSort == InitSort /\ [][NextSort]_vars

\* the members that are not built-in come first, and among the members of
\* the same kind the locations ascend
AscendingByLocation(struct) ==
    \A i, j \in DOMAIN struct.members :
       i < j =>
          LET m1 == struct.members[i]
              m2 == struct.members[j]
          IN  /\ m1.builtin => m2.builtin
              /\ (m1.builtin = m2.builtin) => m1.location < m2.location

\* every member is still paired with its own type
SameMembers(struct, original) ==
    /\ Len(struct.members) = Len(original.members)
    /\ Len(struct.member_types) = Len(original.members)
    /\ \A i \in DOMAIN struct.members :
          /\ struct.member_types[i].src = struct.members[i].alias
          /\ \E j \in DOMAIN original.members :
                struct.members[i] = original.members[j]

\* C23, as the specification states it: sorting by descending and then by
\* ascending location gives back the original order of the members.
C23_Original == pc = "sorted" => ib_types["Input"] = ib_added["Input"]

\* C23: sorting by descending and then by ascending location leaves the
\* members of the struct, each with its type, in ascending order of
\* location with the built-in members last; that is the original order
\* exactly when the original order was that one already.
C23_AscendingOrder ==
    pc = "sorted" =>
       /\ SameMembers(ib_types["Input"], ib_added["Input"])
       /\ AscendingByLocation(ib_types["Input"])
       /\ (ib_types["Input"] = ib_added["Input"])
             <=> AscendingByLocation(ib_added["Input"])

\* three members that were in descending order have been sorted twice
C23_Witness ==
    /\ pc = "sorted"
    /\ Len(ib_added["Input"].members) = 3
    /\ \A i \in 1..2 :
          ib_added["Input"].members[i].location > ib_added["Input"].members[i + 1].location
    /\ ib_types["Input"] # ib_added["Input"]

----------------------------------------------------------------------------
(* Modules whose call graph has a cycle: the entry function calls function *)
(* 2, function 2 may call function 3 and function 3 may call function 2.   *)

CycleOps2 ==
    { Ins("OpLoad", 1, 0, {}), Ins("OpAccessChain", 2, 0, {}),
      Ins("OpFunctionCall", 0, 3, {}), Ins("OpFAdd", 0, 0, {}) }

CycleOps3 ==
    { Ins("OpFunctionCall", 0, 2, {}), Ins("OpLoad", 2, 0, {}), Ins("OpFAdd", 0, 0, {}) }

InitCycle ==
    /\ var_storage \in {<<a, b>> : a \in {"Uniform", "Input"},
                                   b \in {"StorageBuffer", "Private"}}
    /\ func_ops \in {<< <<Ins("OpFunctionCall", 0, 2, {})>>, f2, f3 >> :
                        f2 \in SeqsUpTo(CycleOps2, MaxBody),
                        f3 \in SeqsUpTo(CycleOps3, MaxBody)}
    /\ GlobalsStart

SpecCycle == InitCycle /\ [][NextGlobals]_vars

\* the instructions of function f that call function g
CallsTo(f, g) ==
    {i \in DOMAIN func_ops[f] :
        func_ops[f][i].op = "OpFunctionCall" /\ func_ops[f][i].callee = g}

\* function 2 is under analysis when function 3 calls it
ReEntered == CallsTo(2, 3) # {} /\ CallsTo(3, 2) # {}

\* the globals function 2 has collected when it first calls function 3
InProgress ==
    {func_ops[2][i].var :
        i \in {j \in DOMAIN func_ops[2] :
                  /\ j < Min(CallsTo(2, 3))
                  /\ func_ops[2][j].op \in {"OpLoad", "OpAccessChain"}
                  /\ func_ops[2][j].var \in global_var_ids}}

\* C24: when function 3 calls function 2 while function 2 is under
\* analysis, the call contributes the globals function 2 has collected so
\* far, so they are among the globals of function 3.
C24_Original ==
    (pc = "globals_done" /\ ReEntered) => InProgress \subseteq function_global_vars[3]

\* the call of a function under analysis has contributed nothing, though
\* the function had collected a global
C24_Witness ==
    /\ pc = "globals_done"
    /\ ReEntered
    /\ InProgress # {}
    /\ function_global_vars[3] = {}

----------------------------------------------------------------------------
(* Claims about the triggers of another pass, on the modules of SpecPass.  *)

\* the step that emits an instruction that loads a row-major matrix
RowMajorRequest ==
    /\ pc = "body"
    /\ ip' = ip + 1
    /\ "row_major" \in DOMAIN instrs[ip + 1]

\* C25: a request for a row-major conversion helper during emission
\* registers at most the helper of its shape; it sets force_recompile when
\* it registers one, and leaves the registry and force_recompile as they
\* are when the helper is registered already or the matrix is square.
C25_RecompileOnFirstRegistration ==
    [][RowMajorRequest =>
          LET shape == instrs[ip + 1].row_major
              added == spv_function_implementations' \ spv_function_implementations
          IN  /\ spv_function_implementations \subseteq spv_function_implementations'
              /\ Cardinality(added) <= 1
              /\ added # {} => force_recompile'
              /\ added = {} => force_recompile' = force_recompile
              /\ shape[1] = shape[2] => added = {}
              /\ shape[1] # shape[2] =>
                    /\ RowMajorImpl(shape[1], shape[2]) \in spv_function_implementations'
                    /\ added = {RowMajorImpl(shape[1], shape[2])}
                                  \ spv_function_implementations]_vars

\* in the second pass a helper that the first pass registered has been
\* requested again, and force_recompile is still unset
C25_Witness ==
    /\ pc = "body"
    /\ pass_count = 1
    /\ ip > 0
    /\ "row_major" \in DOMAIN instrs[ip]
    /\ instrs[ip].row_major[1] # instrs[ip].row_major[2]
    /\ ~force_recompile

\* C29: when only the clearing of an image decoration and the first
\* registration of a row-major helper ask for another pass, no step of the
\* second pass asks for one: compile() returns after at most two passes and
\* does not throw.
C29_TwoPassesSuffice ==
    /\ pass_count <= 2
    /\ pc # "thrown"
    /\ (pass_count >= 1 /\ pc \in {"prototype", "body"}) => ~force_recompile
    /\ pc = "returned" => pass_count \in 1..2

\* compile() has returned the text of a second pass, after a first pass
\* that cleared a decoration and registered a helper
C29_Witness ==
    /\ pc = "returned"
    /\ pass_count = 2
    /\ AsksForHelper
    /\ \E v \in DOMAIN decoration_flags : ObservedOn(v) # {}

----------------------------------------------------------------------------
(* Claims about the pre-scanner, on the modules of SpecCompile.            *)

\* emit_instruction lines 1320-1416: the opcodes emitted as a call of an
\* atomic_*_explicit function
AtomicFuncOps == AtomicOpcodes \cup {"OpAtomicStore"}

\* the header of the running pass, or of the returned text, is in the buffer
HeaderEmitted == pc \in {"prototype", "body", "returned"}

IncludesMetalAtomic ==
    \E k \in DOMAIN buffer : buffer[k] = Tok("#include <metal_atomic>", 0, 0)

\* C26: when a reachable instruction is an atomic operation that is emitted
\* as an atomic_*_explicit call, OpAtomicStore included, the header lines
\* hold `#include <metal_atomic>` and the emitted header contains it.
C26_Original ==
    (HeaderEmitted /\ ReachableOpcodes \cap AtomicFuncOps # {}) =>
        /\ HeaderOrder[1] \in header_lines
        /\ IncludesMetalAtomic

\* a returned text for a module whose only atomic operation is a store,
\* without the include
C26_Witness ==
    /\ pc = "returned"
    /\ "OpAtomicStore" \in ReachableOpcodes
    /\ ~IncludesMetalAtomic

----------------------------------------------------------------------------
(* The modules of SpecHelpers: an entry function and a second function     *)
(* whose instructions call the helper functions of the back-end.           *)

MaxStatements == 2       \* statements in the entry function (SpecHelpers)

\* an extended instruction of the GLSL set; columns is the column count of
\* its result type
ExtInst(ext, columns) ==
    [op |-> "OpExtInst", var |-> 0, callee |-> 0, args |-> {}, ext |-> ext,
     columns |-> columns]

\* an instruction with a result: the result ID and whether its type is an
\* array
WithResult(op, id, array) ==
    [op |-> op, var |-> 0, callee |-> 0, args |-> {}, result |-> [id |-> id, array |-> array]]

\* OpStore of the value id: type is ids[id].get_type(), array whether
\* expression_type(id) is an array
StoreOf(id, type, array) ==
    [op |-> "OpStore", var |-> 0, callee |-> 0, args |-> {},
     rhs |-> [id |-> id, type |-> type, array |-> array]]

\* a load of a row-major matrix of the given shape
RowMajorLoad(cols, rows) ==
    [op |-> "OpLoad", var |-> 0, callee |-> 0, args |-> {}, img |-> 0,
     row_major |-> <<cols, rows>>]

\* the statements of the entry function: the extended instructions, a copy
\* of a loaded array, a store of a constant array, a store of a scalar, the
\* loads of row-major matrices and a call of function 2
HelperStatements ==
    { << ExtInst("FindSMsb", 1) >>, << ExtInst("FindUMsb", 1) >>,
      << ExtInst("MatrixInverse", 2) >>, << ExtInst("MatrixInverse", 3) >>,
      << ExtInst("MatrixInverse", 4) >>,
      << WithResult("OpLoad", 20, TRUE), StoreOf(20, "TypeExpression", TRUE) >>,
      << StoreOf(21, "TypeConstant", TRUE) >>,
      << WithResult("OpFAdd", 22, FALSE), StoreOf(22, "TypeExpression", FALSE) >>,
      << RowMajorLoad(2, 3) >>, << RowMajorLoad(3, 3) >>,
      << Ins("OpFunctionCall", 0, 2, {}) >> }

\* the bodies of function 2: nothing of interest, a read of the uniform
\* buffer, an inverse, and a store of its array parameter, which it takes
\* by value (ID 30 is the OpFunctionParameter, a variable of the compiler)
HelperCalleeOps(uniform) ==
    { << Ins("OpFAdd", 0, 0, {}) >>,
      << Ins("OpLoad", uniform, 0, {}) >>,
      << ExtInst("MatrixInverse", 3) >>,
      << StoreOf(30, "TypeVariable", TRUE) >> }

RECURSIVE Concat(_)
Concat(seqs) == IF seqs = <<>> THEN <<>> ELSE Head(seqs) \o Concat(Tail(seqs))

InitHelpers ==
    /\ pc = "start"
    /\ result = <<>>
    /\ diagnostic = ""
    /\ execution_model = "Vertex"
    /\ locale = "C"
    /\ locale_before = locale
    /\ first_run = <<>>
    /\ old_locale = ""
    /\ compile_calls = 1
    /\ first_call = <<>>
    /\ entry_points = << [self |-> entry_point, name |-> "main"] >>
    /\ meta = << Meta("Function", "main", <<>>), Meta("Variable", "colour", <<>>) >>
    /\ orig_names = [meta |-> meta, entry_points |-> entry_points]
    /\ iface_vars = << Plain("Output", "vec", "none", TRUE, 0) >>
    /\ vtx_attrs_by_location = [l \in 0..1 |-> NoAttr]
    /\ func_blocks = << <<Blk("Return", 0)>>, <<Blk("Return", 9)>> >>
    /\ stage_in_var_id = 0
    /\ stage_out_var_id = 0
    /\ stage_uniforms_var_id = 0
    /\ ib_types = [s \in IfaceStorages |-> EmptyStruct]
    /\ ib_added = [s \in IfaceStorages |-> EmptyStruct]
    /\ non_stage_in_input_var_ids = [b \in MslBuffers |-> 0]
    /\ nsi_types = [b \in MslBuffers |-> EmptyStruct]
    /\ needs_vertex_idx_arg = FALSE
    /\ needs_instance_idx_arg = FALSE
    /\ var_storage = << "Output", "Uniform" >>
    /\ orig_storage = var_storage
    /\ global_variables = [i \in 1..Len(var_storage) |-> i]
    /\ entry_local_variables = <<>>
    /\ \E body \in SeqsUpTo(HelperStatements, MaxStatements) :
       \E callee \in HelperCalleeOps(2) :
          /\ body # <<>>
          /\ func_ops = << Concat(body), callee >>
    /\ func_arguments = [f \in DOMAIN func_ops |-> <<>>]
    /\ function_global_vars = [f \in DOMAIN func_ops |-> {}]
    /\ id_bound = Len(var_storage) + Len(func_ops) + 1
    /\ instrs = func_ops[entry_point]
    /\ base_recompiles = 0
    /\ pass_count = 0
    /\ force_recompile = FALSE
    /\ buffer = <<>>
    /\ ip = 0
    /\ resources = <<>>
    /\ decoration_flags = <<>>
    /\ resource_bindings = <<>>
    /\ next_metal_resource_index = ZeroIndex
    /\ pass_start_flags = <<>>
    /\ previous_instruction_opcode = "OpNop"
    /\ options = [platform |-> "macOS", msl_version |-> 10200]
    /\ constants = <<>>
    /\ NoDeclarations
    /\ AlignIdle

SpecHelpers == InitHelpers /\ [][NextCompile]_vars

\* the MSL functions a text defines, in order
RECURSIVE DefinedFunctions(_)
DefinedFunctions(buf) ==
    IF buf = <<>> THEN <<>>
    ELSE (IF Head(buf).kind = "helper" THEN FunctionNames(Head(buf).var) ELSE <<>>)
           \o DefinedFunctions(Tail(buf))

\* the functions whose definitions the instruction emitter relies on
CustomFunctions ==
    {"spvInverse2x2", "spvInverse3x3", "spvInverse4x4", "findSMSB", "findUMSB",
     "spvArrayCopy"}

\* the call at position k of a text follows a definition of the function
DefinedBefore(buf, k) ==
    \E j \in 1..(k - 1) :
        buf[j].kind = "helper" /\ buf[k].var \in Range(FunctionNames(buf[j].var))

\* the row-major helpers the entry function asks for are defined in a text
RowMajorDefined(buf) ==
    \A i \in DOMAIN instrs :
        ("row_major" \in DOMAIN instrs[i]
           /\ RowMajorImpl(instrs[i].row_major[1], instrs[i].row_major[2]) # "")
          => \E j \in DOMAIN buf :
                buf[j] = Tok("helper", RowMajorImpl(instrs[i].row_major[1],
                                                    instrs[i].row_major[2]), 0)

\* C27 as stated: in the string compile() returns, every call of a custom
\* helper function that the instruction emitter emits (spvInverse2x2/3x3/4x4,
\* findSMSB, findUMSB, spvArrayCopy, spvConvertFromRowMajorCxR) is preceded
\* by the definition of that helper.
C27_Original ==
    (pc = "returned") =>
        /\ \A k \in DOMAIN result[1] :
              (result[1][k].kind = "call" /\ result[1][k].var \in CustomFunctions)
                 => DefinedBefore(result[1], k)
        /\ RowMajorDefined(result[1])

\* the returned text calls spvArrayCopy on the array parameter of function 2
\* and holds no definition of it
C27_Witness ==
    /\ pc = "returned"
    /\ \E k \in DOMAIN result[1] : result[1][k] = Tok("call", "spvArrayCopy", 0)
    /\ "spvArrayCopy" \notin Range(DefinedFunctions(result[1]))
    /\ \E i \in DOMAIN func_ops[2] :
          func_ops[2][i] = StoreOf(30, "TypeVariable", TRUE)

\* C28 as stated: whatever set of helpers is registered, the text of a pass
\* defines each MSL function name, the shared determinant helpers spvDet2x2
\* and spvDet3x3 included, at most once.
C28_Original ==
    LET names == DefinedFunctions(buffer) IN
    \A i, j \in DOMAIN names : names[i] = names[j] => i = j

\* both the 3x3 and the 4x4 inverse are registered and the text of the pass
\* defines spvDet2x2 twice
C28_Witness ==
    /\ {"SPVFuncImplInverse3x3", "SPVFuncImplInverse4x4"} \subseteq spv_function_implementations
    /\ Cardinality({i \in DOMAIN DefinedFunctions(buffer) :
                       DefinedFunctions(buffer)[i] = "spvDet2x2"}) = 2

----------------------------------------------------------------------------
(* The modules of SpecArgs: vertex shaders with inputs that may go to a    *)
(* secondary input block, and buffers with or without binding records.     *)

ArgInputs ==
    { << Plain("Input", "vec", "none", TRUE, 0) >>,
      << Plain("Input", "mat", "none", TRUE, 0) >>,
      << Plain("Input", "mat", "none", TRUE, 0), Plain("Input", "mat", "none", TRUE, 1) >> }

ArgBuffers ==
    { Res("Struct", "Uniform", 0, FALSE), Res("Struct", "StorageBuffer", 1, FALSE) }

ArgBindings ==
    { Binding("Vertex", 0, 0, 0), Binding("Vertex", 0, 0, 3), Binding("Vertex", 0, 1, 1) }

InitArgs ==
    /\ pc = "start"
    /\ result = <<>>
    /\ diagnostic = ""
    /\ execution_model = "Vertex"
    /\ locale = "C"
    /\ locale_before = locale
    /\ first_run = <<>>
    /\ old_locale = ""
    /\ compile_calls = 1
    /\ first_call = <<>>
    /\ entry_points = << [self |-> entry_point, name |-> "main"] >>
    /\ meta = << Meta("Function", "main", <<>>), Meta("Variable", "colour", <<>>) >>
    /\ orig_names = [meta |-> meta, entry_points |-> entry_points]
    /\ iface_vars \in ArgInputs
    /\ vtx_attrs_by_location \in AttrConfigs
    /\ func_blocks = << <<Blk("Return", 0)>>, <<Blk("Return", 9)>> >>
    /\ stage_in_var_id = 0
    /\ stage_out_var_id = 0
    /\ stage_uniforms_var_id = 0
    /\ ib_types = [s \in IfaceStorages |-> EmptyStruct]
    /\ ib_added = [s \in IfaceStorages |-> EmptyStruct]
    /\ non_stage_in_input_var_ids = [b \in MslBuffers |-> 0]
    /\ nsi_types = [b \in MslBuffers |-> EmptyStruct]
    /\ needs_vertex_idx_arg = FALSE
    /\ needs_instance_idx_arg = FALSE
    /\ var_storage = [i \in DOMAIN iface_vars |-> iface_vars[i].storage] \o << "Uniform" >>
    /\ orig_storage = var_storage
    /\ global_variables = [i \in 1..Len(var_storage) |-> i]
    /\ entry_local_variables = <<>>
    /\ func_ops = << <<Ins("OpFunctionCall", 0, 2, {})>>, <<Ins("OpFAdd", 0, 0, {})>> >>
    /\ func_arguments = [f \in DOMAIN func_ops |-> <<>>]
    /\ function_global_vars = [f \in DOMAIN func_ops |-> {}]
    /\ id_bound = Len(var_storage) + Len(func_ops) + 1
    /\ instrs = func_ops[entry_point]
    /\ base_recompiles \in 0..1
    /\ pass_count = 0
    /\ force_recompile = FALSE
    /\ buffer = <<>>
    /\ ip = 0
    /\ resources \in SeqsUpTo(ArgBuffers, MaxRes)
    /\ decoration_flags = [i \in DOMAIN resources |-> {}]
    /\ resource_bindings \in SeqsUpTo(ArgBindings, 1)
    /\ next_metal_resource_index = ZeroIndex
    /\ pass_start_flags = decoration_flags
    /\ previous_instruction_opcode = "OpNop"
    /\ options = [platform |-> "macOS", msl_version |-> 10200]
    /\ constants = <<>>
    /\ NoDeclarations
    /\ AlignIdle

SpecArgs == InitArgs /\ [][NextCompile]_vars

\* the parameters of the entry function that carry [[buffer(N)]], in the
\* text of the pass
BufferParameters ==
    {k \in DOMAIN buffer : buffer[k].kind \in {"input_buffer", "buffer"}}

\* entry_point_args has run in this pass
PrototypeEmitted == pc \in {"body", "returned"}

\* C30 as stated: in the entry-point parameter list of every pass no two
\* buffer parameters carry the same [[buffer(N)]] index; secondary input
\* blocks, buffers matched by binding records and automatically numbered
\* buffers are pairwise distinct.
C30_Original ==
    PrototypeEmitted =>
        \A j, k \in BufferParameters : buffer[j].index = buffer[k].index => j = k

\* a secondary input block and an automatically numbered buffer both carry
\* [[buffer(0)]], with no binding record given
C30_Witness ==
    /\ PrototypeEmitted
    /\ resource_bindings = <<>>
    /\ \E j, k \in BufferParameters :
          /\ buffer[j].kind = "input_buffer"
          /\ buffer[k].kind = "buffer"
          /\ buffer[j].index = 0
          /\ buffer[k].index = 0

====
